---- MODULE Spec2Model ----
(***************************************************************************)
(* Bouncing Shapes: the fixed-step integrator driver (src/lib/physics.ts), *)
(* the entity lifecycle and input handlers (src/pages/BouncingShapes.tsx)  *)
(* and the frame/input host (src/pages/DemoPage.tsx).                      *)
(*                                                                         *)
(* Units.  Simulation time is counted in ticks of 1/300000 s, so that the  *)
(* fixed timestep 1/60 s, a millisecond and the slow-motion product        *)
(* dt * 0.33 are all whole numbers.  Wall-clock time is in milliseconds.   *)
(* Positions held by the engine are in metres, kept in hundredths          *)
(* (centimetres); pointer positions and viewport sizes are in CSS pixels;  *)
(* a pixel position computed from a body (metres * PPM) is kept in         *)
(* hundredths of a pixel, so that no conversion rounds.                    *)
(* Math.random() is an input: a cyclic stream of draws r / RandDen.        *)
(***************************************************************************)
EXTENDS Integers, Sequences, FiniteSets, TLC

VARIABLES
    \* BouncingShapes.tsx: refs
    world,          \* worldRef.current: the live world, or NoWorld
    entities,       \* entitiesRef.current: the active list, oldest first
    accumulator,    \* accumulatorRef.current, ticks
    simTime,        \* simTimeRef.current, ticks
    lastPointer,    \* lastPointerRef.current
    dragStart,      \* dragRef.current.start
    \* BouncingShapes.tsx: React state
    tiltDeg, windOn, attractorOn, slowMo, spawnKind, nextRandomKind,
    onFrameRef,     \* onFrameRef.current: the state values the onFrame closure holds
    \* the physics engine: the dynamic bodies of the live world
    bodyPos,        \* body -> its position <<x, y>>, metres * MeterScale
    nextBody,       \* the next body handle the engine hands out
    \* DemoPage.tsx
    mounted,        \* the page is rendered and its effects have run
    animationRef,   \* animationRef.current names a pending frame callback
    pendingFrames,  \* frame callbacks requested and neither run nor cancelled
    listeners,      \* the event types that have a listener of the page attached
    unmounted,      \* the effects' cleanups have run
    isPaused,       \* isPaused
    isPausedRef,    \* isPausedRef.current
    lastTime,       \* lastTimeRef.current, ms
    startTime,      \* startTimeRef.current, ms
    frameCtx,       \* frameCtxRef.current, or NoCtx
    \* the browser
    now,            \* performance.now(), ms
    window,         \* window.innerWidth, window.innerHeight
    \* bookkeeping of the run
    call,           \* the latest driver call: its inputs, event log and result
    fed,            \* sum of the dt handed to the driver so far, ticks
    stepped,        \* sum of the sizes of all world.step calls so far, ticks
    calls,          \* number of driver calls made by DriverSpec
    pass,           \* the latest cleanupEntities pass: its input and what it destroyed
    spawn,          \* the latest pointer-up
    frame,          \* the latest frame callback
    frameLog,       \* when frame callbacks last ran
    key,            \* the latest key press
    used            \* how much of each bound of the scenario is used up

simVars == <<world, entities, accumulator, simTime, lastPointer, dragStart, bodyPos, nextBody>>

ctlVars == <<tiltDeg, windOn, attractorOn, slowMo, spawnKind, nextRandomKind, onFrameRef>>

mountVars == <<mounted, animationRef, pendingFrames, listeners, unmounted>>

pauseVars == <<isPaused, isPausedRef>>

hostVars == <<mountVars, pauseVars, lastTime, startTime, frameCtx>>

envVars == <<now, window>>

driverVars == <<call, fed, stepped, calls>>

logVars == <<pass, spawn, used, frame, frameLog, key>>

vars == <<simVars, ctlVars, hostVars, envVars, driverVars, logVars>>

----------------------------------------------------------------------------
(* Program constants *)

\* CONFIG.TIME_STEP = 1/60 s, in ticks
TIME_STEP == 5000

TicksPerSecond == 60 * TIME_STEP

TicksPerMs == TicksPerSecond \div 1000

PPM == 50

INITIAL_ENTITIES == 60

MAX_ENTITIES == 260

ENTITY_MARGIN == 200

CLICK_THRESHOLD_MS == 150

BURST_COUNT == 10

BURST_JITTER == 40

\* CONFIG.SLOW_MO_FACTOR = 0.33, in hundredths
SLOW_MO_FACTOR == 33

\* a Math.random() draw r stands for r / RandDen, 0 <= r < RandDen
RandDen == 1000

\* engine coordinates are metres * MeterScale
MeterScale == 100

----------------------------------------------------------------------------
(* Bounds *)

\* driver calls explored by DriverSpec
MaxDriverCalls == 3

\* dt values handed to the driver by DriverSpec, ticks
DriverDts == {0, 2000, 5000, 7500, 12000}

\* Spec: pointer-up spawns, resets, and the last clock value (ms)
MaxSpawns == 1

MaxResets == 1

MaxNow == 40

\* CullSpec: bodies the engine displaces, resizes
MaxMoves == 1

MaxResizes == 1

\* CapSpec: enough bursts to pass MAX_ENTITIES, resizes
CapBursts == 27

CapResizes == 1

\* key presses in a row that are counted
RunCap == 10

\* how far above the top edge the engine may put a body, px
FarAbove == 100000

\* the clock advances by one of these, ms
ClockSteps == {40}

\* TimingSpec: resets, and the clock advancing in steps of this many ms
TimingResets == 1

TimingStep == 20

\* TimingSpec: how many times the clock advances
TimingTicks == 2

\* how many times the clock advances while the loop is followed
LoopTicks == 1

\* PointerSpec: pointer-up spawns, and how many times the clock advances
PointerSpawns == 1

PointerTicks == 2

\* ControlSpec: pointer-up spawns, bursts
ControlSpawns == 1

ControlBursts == 1

\* HostSpec: pointer-up spawns, bursts, resizes
HostSpawns == 1

HostBursts == 1

HostResizes == 1

----------------------------------------------------------------------------
(* Fixed-step integrator driver: physics.ts *)

\* one entry of a driver call's event log
Ev(name, arg) == [ev |-> name, arg |-> arg]

RECURSIVE SumSteps(_)
\* total size of the world.step events of a log
SumSteps(log) ==
    IF log = <<>> THEN 0
    ELSE (IF Head(log).ev = "step" THEN Head(log).arg ELSE 0) + SumSteps(Tail(log))

\* the indices of a log that hold an event of the given name
EventsAt(log, name) == {i \in 1..Len(log) : log[i].ev = name}

\* SubstepEvents with the forces applied after the step they belong to
SubstepEvents_StepFirst(sim, size, hasAfter) ==
    <<Ev("step", size), Ev("applyForces", sim)>>
        \o (IF hasAfter THEN <<Ev("afterStep", 0)>> ELSE <<>>)

\* the events one substep appends: applyForces(simTime); world.step(size); afterStep?.()
SubstepEvents(sim, size, hasAfter) ==
    <<Ev("applyForces", sim), Ev("step", size)>>
        \o (IF hasAfter THEN <<Ev("afterStep", 0)>> ELSE <<>>)

RECURSIVE FixedSteps(_, _, _)
\* the while loop of stepWorldWithForces, on s = [acc, sim, advanced, log]
FixedSteps(s, ts, hasAfter) ==
    IF s.acc >= ts
    THEN FixedSteps([acc |-> s.acc - ts,
                     sim |-> s.sim + ts,
                     advanced |-> s.advanced + ts,
                     log |-> s.log \o SubstepEvents(s.sim, ts, hasAfter)],
                    ts, hasAfter)
    ELSE s

\* PartialStep taken whenever the accumulator is >= 0, so also with nothing left
PartialStep_AlsoWhenZero(s, hasAfter) ==
    IF s.acc >= 0
    THEN [acc |-> 0,
          sim |-> s.sim + s.acc,
          advanced |-> s.advanced + s.acc,
          log |-> s.log \o SubstepEvents(s.sim, s.acc, hasAfter)]
    ELSE s

\* PartialStep that forgets simTimeRef.current += partial
PartialStep_ClockNotAdvanced(s, hasAfter) ==
    IF s.acc > 0
    THEN [acc |-> 0,
          sim |-> s.sim,
          advanced |-> s.advanced + s.acc,
          log |-> s.log \o SubstepEvents(s.sim, s.acc, hasAfter)]
    ELSE s

\* PartialStep that forgets accumulatorRef.current = 0
PartialStep_RemainderKept(s, hasAfter) ==
    IF s.acc > 0
    THEN [acc |-> s.acc,
          sim |-> s.sim + s.acc,
          advanced |-> s.advanced + s.acc,
          log |-> s.log \o SubstepEvents(s.sim, s.acc, hasAfter)]
    ELSE s

\* the final partial step of stepWorldWithForces
PartialStep(s, hasAfter) ==
    IF s.acc > 0
    THEN [acc |-> 0,
          sim |-> s.sim + s.acc,
          advanced |-> s.advanced + s.acc,
          log |-> s.log \o SubstepEvents(s.sim, s.acc, hasAfter)]
    ELSE s

\* stepWorldWithForces without its final partial step
stepWorldWithForces_NoPartialStep(acc, dt, ts, sim, hasAfter) ==
    FixedSteps([acc |-> acc + dt, sim |-> sim, advanced |-> 0, log |-> <<>>],
               ts, hasAfter)

\* stepWorldWithForces(world, accumulatorRef, dt, ts, simTimeRef, applyForces, afterStep):
\* the refs afterwards, the value returned (advanced) and the calls made (log)
stepWorldWithForces(acc, dt, ts, sim, hasAfter) ==
    PartialStep(
        FixedSteps([acc |-> acc + dt, sim |-> sim, advanced |-> 0, log |-> <<>>],
                   ts, hasAfter),
        hasAfter)

RECURSIVE WholeSteps(_, _)
\* the while loop of stepWithFixedTimestep, on s = [acc, log]
WholeSteps(s, ts) ==
    IF s.acc >= ts
    THEN WholeSteps([acc |-> s.acc - ts, log |-> Append(s.log, Ev("step", ts))], ts)
    ELSE s

RECURSIVE WholeSteps_WhileGreater(_, _)
WholeSteps_WhileGreater(s, ts) ==
    IF s.acc > ts
    THEN WholeSteps_WhileGreater(
             [acc |-> s.acc - ts, log |-> Append(s.log, Ev("step", ts))], ts)
    ELSE s

\* stepWithFixedTimestep looping while accumulator > timestep instead of >=
stepWithFixedTimestep_WhileGreater(acc, dt, ts) ==
    WholeSteps_WhileGreater([acc |-> acc + dt, log |-> <<>>], ts)

\* stepWithFixedTimestep that steps the remainder too, as stepWorldWithForces does
stepWithFixedTimestep_ThenRemainder(acc, dt, ts) ==
    LET s == WholeSteps([acc |-> acc + dt, log |-> <<>>], ts)
    IN  IF s.acc > 0 THEN [acc |-> 0, log |-> Append(s.log, Ev("step", s.acc))] ELSE s

\* stepWithFixedTimestep(world, accumulatorRef, dt, ts)
stepWithFixedTimestep(acc, dt, ts) ==
    WholeSteps([acc |-> acc + dt, log |-> <<>>], ts)


NoCall ==
    [op |-> "none", dt |-> 0, ts |-> TIME_STEP, acc0 |-> 0, sim0 |-> 0,
     hasAfter |-> FALSE, log |-> <<>>, ret |-> 0]

\* the record of a stepWorldWithForces call and its result r
ForcesCall(dt, acc0, sim0, hasAfter, r) ==
    [op |-> "forces", dt |-> dt, ts |-> TIME_STEP, acc0 |-> acc0, sim0 |-> sim0,
     hasAfter |-> hasAfter, log |-> r.log, ret |-> r.advanced]

----------------------------------------------------------------------------
(* Units, random draws, shape kinds: physics.ts, BouncingShapes.tsx *)

pixelsToMeters(pixels, pixelsPerMeter) == (pixels * MeterScale) \div pixelsPerMeter

metersToPixels(meters, pixelsPerMeter) == (meters * pixelsPerMeter) \div MeterScale

\* the i-th Math.random() draw of a handler, from the cyclic stream rnd
Draw(rnd, i) == rnd[((i - 1) % Len(rnd)) + 1]

\* Math.random() * range, in whole units
Scaled(r, range) == (r * range) \div RandDen

\* (Math.random() * 2 - 1) * amount
Symmetric(r, amount) == ((2 * r - RandDen) * amount) \div RandDen

\* r < 1/3 ? circle : r < 2/3 ? box : triangle
KindOfDraw(r) ==
    IF 3 * r < RandDen THEN "circle"
    ELSE IF 3 * r < 2 * RandDen THEN "box"
    ELSE "triangle"

createRandomShapeKind(r) == KindOfDraw(r)

Max2(a, b) == IF a >= b THEN a ELSE b

Min2(a, b) == IF a <= b THEN a ELSE b

----------------------------------------------------------------------------
(* World and entities: physics.ts, BouncingShapes.tsx *)

NoWorld == [live |-> FALSE, id |-> 0, boundsW |-> 0, boundsH |-> 0, gravityDeg |-> 0]

NoPoint == [set |-> FALSE, x |-> 0, y |-> 0]

NoDrag == [set |-> FALSE, x |-> 0, y |-> 0, t |-> 0]

NoCtx == [set |-> FALSE, width |-> 0, height |-> 0]

NoBodies == [b \in {} |-> <<0, 0>>]

\* createWorld, then createBounds(world, width, height, PPM): the four edges
\* of [0, w] x [0, h] on one static body
createWorldWithBounds(id, widthPx, heightPx) ==
    [live |-> TRUE, id |-> id,
     boundsW |-> pixelsToMeters(widthPx, PPM),
     boundsH |-> pixelsToMeters(heightPx, PPM),
     gravityDeg |-> 0]

\* setGravityFromAngle(world, angleDeg, 10)
setGravityFromAngle(w, angleDeg) == [w EXCEPT !.gravityDeg = angleDeg]

\* PushNewEntities with unshift in place of push: new entities go to the front
PushNewEntities_AtFront(st, places) ==
    LET first == st.nextBody
        n == Len(places)
    IN  [entities |-> [j \in 1..n |-> [body |-> first + j - 1, kind |-> places[j].kind]]
                        \o st.entities,
         bodyPos |-> [b \in (DOMAIN st.bodyPos) \cup (first .. first + n - 1) |->
                        IF b \in DOMAIN st.bodyPos THEN st.bodyPos[b]
                        ELSE <<pixelsToMeters(places[b - first + 1].x, PPM),
                               pixelsToMeters(places[b - first + 1].y, PPM)>>],
         nextBody |-> first + n]

\* st = [entities, bodyPos, nextBody]: the active list and the live world's
\* dynamic bodies.  A loop with one round per element of places, each round
\* creating one dynamic body at (x, y) (pixels) of the given kind and pushing
\* its entity.
PushNewEntities(st, places) ==
    LET first == st.nextBody
        n == Len(places)
    IN  [entities |-> st.entities \o
                        [j \in 1..n |-> [body |-> first + j - 1, kind |-> places[j].kind]],
         bodyPos |-> [b \in (DOMAIN st.bodyPos) \cup (first .. first + n - 1) |->
                        IF b \in DOMAIN st.bodyPos THEN st.bodyPos[b]
                        ELSE <<pixelsToMeters(places[b - first + 1].x, PPM),
                               pixelsToMeters(places[b - first + 1].y, PPM)>>],
         nextBody |-> first + n]

\* entitiesRef.current.push(createEntityAtPosition(world, x, y, kind, velocity))
SpawnAt(st, xPx, yPx, kind) ==
    PushNewEntities(st, <<[x |-> xPx, y |-> yPx, kind |-> kind]>>)

\* draws one createRandomEntity makes: r, radius, x, y, vx, vy, three of materialFor
DrawsPerRandomEntity == 9

\* createRandomEntity(world, PPM, width, height): where and what it creates,
\* its draws starting after the k-th of the stream
RandomPlace(widthPx, heightPx, rnd, k) ==
    LET r == Draw(rnd, k + 1)
        radiusPx == Scaled(Draw(rnd, k + 2), 35) + 25
    IN  [x |-> Scaled(Draw(rnd, k + 3), Max2(0, widthPx - 2 * radiusPx)) + radiusPx,
         y |-> Scaled(Draw(rnd, k + 4), Max2(0, heightPx - 2 * radiusPx)) + radiusPx,
         kind |-> KindOfDraw(r)]

\* the spawn loop of onInit stopping one round early
InitialEntities_OneShort(st, widthPx, heightPx, rnd) ==
    PushNewEntities(st,
        [j \in 1..(INITIAL_ENTITIES - 1) |->
            RandomPlace(widthPx, heightPx, rnd, (j - 1) * DrawsPerRandomEntity)])

\* the spawn loop of onInit: round i = 0 .. INITIAL_ENTITIES - 1
InitialEntities(st, widthPx, heightPx, rnd) ==
    PushNewEntities(st,
        [j \in 1..INITIAL_ENTITIES |->
            RandomPlace(widthPx, heightPx, rnd, (j - 1) * DrawsPerRandomEntity)])

\* ListAtInit that forgets entitiesRef.current = [] and keeps the old list
ListAtInit_KeepOld(old) == old

\* the list onInit starts from: entitiesRef.current = []
ListAtInit(old) == <<>>

\* onInit(ctx): a new world with bounds replaces the old one, the list is
\* emptied and refilled; gives [world, entities, bodyPos, nextBody]
onInit(id, ctx, oldEntities, firstBody, rnd) ==
    LET st == InitialEntities(
                  [entities |-> ListAtInit(oldEntities), bodyPos |-> NoBodies,
                   nextBody |-> firstBody],
                  ctx.width, ctx.height, rnd)
    IN  [world |-> createWorldWithBounds(id, ctx.width, ctx.height),
         entities |-> st.entities, bodyPos |-> st.bodyPos, nextBody |-> st.nextBody]

\* body.getPosition(); a body that is in no live world keeps a stale position
StalePos == <<0, 0>>

getPosition(pos, b) == IF b \in DOMAIN pos THEN pos[b] ELSE StalePos

\* dropping entities without world.destroyBody
destroyBodies_NoneDestroyed(pos, gone) == pos

\* world.destroyBody for every body of the set
destroyBodies(pos, gone) == [b \in (DOMAIN pos) \ gone |-> pos[b]]

BodiesOf(ents) == [i \in 1..Len(ents) |-> ents[i].body]

Range(f) == {f[i] : i \in DOMAIN f}

\* a whole number of pixels, in hundredths of a pixel
Px(n) == n * MeterScale

\* IsOutside with non-strict comparisons against the margins
IsOutside_NonStrict(x, y, width, height) ==
    \/ x <= Px(-ENTITY_MARGIN)
    \/ x >= Px(width + ENTITY_MARGIN)
    \/ y >= Px(height + ENTITY_MARGIN)

\* the cull test of cleanupEntities, on a position in hundredths of a pixel
IsOutside(x, y, width, height) ==
    \/ x < Px(-ENTITY_MARGIN)
    \/ x > Px(width + ENTITY_MARGIN)
    \/ y > Px(height + ENTITY_MARGIN)

\* pos.x * PPM, pos.y * PPM, in hundredths of a pixel
PixelPos(p) == <<p[1] * PPM, p[2] * PPM>>

Culled(pos, b, width, height) ==
    LET px == PixelPos(getPosition(pos, b)) IN IsOutside(px[1], px[2], width, height)

\* SurplusOf that removes one entity too few
SurplusOf_OneTooFew(remaining) ==
    IF Len(remaining) > MAX_ENTITIES THEN Len(remaining) - MAX_ENTITIES - 1 ELSE 0

\* the cap of cleanupEntities: how many of the remaining entities to remove
SurplusOf(remaining) ==
    IF Len(remaining) > MAX_ENTITIES THEN Len(remaining) - MAX_ENTITIES ELSE 0

\* SliceFrom that keeps the oldest entities: remaining.slice(0, length - toRemove)
SliceFrom_KeepOldest(remaining, toRemove) ==
    SubSeq(remaining, 1, Len(remaining) - toRemove)

\* remaining.slice(toRemove)
SliceFrom(remaining, toRemove) == SubSeq(remaining, toRemove + 1, Len(remaining))

\* cleanupEntities whose cap counts the surplus of the list it was given,
\* culled entities included
cleanupEntities_SurplusOfInput(ents, pos, width, height) ==
    LET kept == SelectSeq(ents, LAMBDA e : ~Culled(pos, e.body, width, height))
        culled == {ents[i].body : i \in {j \in 1..Len(ents) :
                                            Culled(pos, ents[j].body, width, height)}}
        toRemove == Min2(SurplusOf(ents), Len(kept))
    IN  [remaining |-> SliceFrom(kept, toRemove),
         culled |-> culled,
         capped |-> {kept[i].body : i \in 1..toRemove}]

\* cleanupEntities(world, entities, width, height): the list returned
\* (remaining), and the bodies destroyed by the cull and by the cap
cleanupEntities(ents, pos, width, height) ==
    LET kept == SelectSeq(ents, LAMBDA e : ~Culled(pos, e.body, width, height))
        culled == {ents[i].body : i \in {j \in 1..Len(ents) :
                                            Culled(pos, ents[j].body, width, height)}}
        toRemove == SurplusOf(kept)
    IN  [remaining |-> SliceFrom(kept, toRemove),
         culled |-> culled,
         capped |-> {kept[i].body : i \in 1..toRemove}]

\* clearAllEntities that empties the list and destroys no body
clearAllEntities_ListOnly(ents, pos) == [remaining |-> <<>>, bodyPos |-> pos]

\* clearAllEntities(world, entities)
clearAllEntities(ents, pos) ==
    [remaining |-> <<>>, bodyPos |-> destroyBodies(pos, Range(BodiesOf(ents)))]

NoPass ==
    [ran |-> FALSE, input |-> <<>>, width |-> 0, height |-> 0,
     culled |-> NoBodies, capped |-> NoBodies,
     gravity0 |-> 0, gravityDeg |-> 0, drawn |-> <<>>]

\* drawEntities given the list as it was before the frame's cleanup
ListDrawn_BeforeCleanup(before, cl) == before

\* the list drawEntities is given: entitiesRef.current, which the line before
\* has set to what cleanupEntities returned
ListDrawn(before, cl) == cl.remaining

\* drawEntities(g, entities): the bodies whose position and angle it reads
drawEntities(ents) == BodiesOf(ents)

\* a velocity in px/s, as the exact fraction num / den
Frac(num, den) == [num |-> num, den |-> den]

NoSpawn ==
    [up |-> FALSE, spawned |-> FALSE, path |-> "none", body |-> 0, kind |-> "none",
     x |-> 0, y |-> 0, startX |-> 0, startY |-> 0, startT |-> 0, dtMs |-> 0,
     vxPx |-> Frac(0, 1), vyPx |-> Frac(0, 1), count0 |-> 0,
     down |-> FALSE, hadStart |-> FALSE]

NoFrame ==
    [ticked |-> FALSE, delivered |-> FALSE, dtMs |-> 0,
     timedBefore |-> FALSE, sinceTimed |-> 0,
     deliveredBefore |-> FALSE, sinceDelivered |-> 0,
     tiltDeg |-> 0, slowMo |-> FALSE, time |-> 0]

NoFrameLog ==
    [timed |-> FALSE, timedAt |-> 0, delivered |-> FALSE, deliveredAt |-> 0,
     origin |-> 0, sum |-> 0, idle |-> 0]

NoKey == [pressed |-> FALSE, e |-> "", k |-> "", run |-> 0, tilt0 |-> 0, ctl0 |-> <<>>]


----------------------------------------------------------------------------
(* The physics engine as a black box: world.step *)

MinOf(S) == CHOOSE b \in S : \A c \in S : b <= c

MaxOf(S) == CHOOSE b \in S : \A c \in S : b >= c

\* Engine positions that decide the cull test for a viewport: on each margin
\* line and the nearest position beyond it, and far above the top edge.
EnginePositions(width, height) ==
    LET left == pixelsToMeters(-ENTITY_MARGIN, PPM)
        right == pixelsToMeters(width + ENTITY_MARGIN, PPM)
        bottom == pixelsToMeters(height + ENTITY_MARGIN, PPM)
        midX == pixelsToMeters(width \div 2, PPM)
        midY == pixelsToMeters(height \div 2, PPM)
    IN  { <<left - 1, midY>>, <<left, midY>>,
          <<right, midY>>, <<right + 1, midY>>,
          <<midX, bottom>>, <<midX, bottom + 1>>,
          <<midX, pixelsToMeters(-FarAbove, PPM)>> }

NoMove == [moved |-> FALSE, body |-> 0, to |-> <<0, 0>>]

\* What a driver call's world.step calls may do to the bodies: nothing the
\* page can tell, or (while the scenario allows) put the oldest or the newest
\* body at one of the deciding positions.  No step, no motion.
EngineMoves(log, pos, allowed, width, height) ==
    {NoMove} \cup
        IF EventsAt(log, "step") # {} /\ allowed /\ DOMAIN pos # {}
        THEN {[moved |-> TRUE, body |-> b, to |-> q] :
                 b \in {MinOf(DOMAIN pos), MaxOf(DOMAIN pos)},
                 q \in EnginePositions(width, height)}
        ELSE {}

ApplyMove(pos, mv) ==
    IF mv.moved THEN [pos EXCEPT ![mv.body] = mv.to] ELSE pos

----------------------------------------------------------------------------
(* Key handling: handleKeyDown of BouncingShapes.tsx *)

Controls ==
    [tiltDeg |-> tiltDeg, windOn |-> windOn, attractorOn |-> attractorOn,
     slowMo |-> slowMo, spawnKind |-> spawnKind, nextRandomKind |-> nextRandomKind]

\* the tilt keys without Math.max and Math.min
ControlsAfterKey_Unclamped(c, k, r) ==
    CASE k = "arrowleft" -> [c EXCEPT !.tiltDeg = @ - 5]
      [] k = "arrowright" -> [c EXCEPT !.tiltDeg = @ + 5]
      [] k = "arrowup" -> [c EXCEPT !.tiltDeg = 0]
      [] OTHER -> c

\* the state setters handleKeyDown calls for key k; r is the draw of
\* createRandomShapeKind
ControlsAfterKey(c, k, r) ==
    CASE k = "arrowleft" -> [c EXCEPT !.tiltDeg = Max2(-45, @ - 5)]
      [] k = "arrowright" -> [c EXCEPT !.tiltDeg = Min2(45, @ + 5)]
      [] k = "arrowup" -> [c EXCEPT !.tiltDeg = 0]
      [] k = "1" -> [c EXCEPT !.spawnKind = "circle"]
      [] k = "2" -> [c EXCEPT !.spawnKind = "box"]
      [] k = "3" -> [c EXCEPT !.spawnKind = "triangle"]
      [] k = "0" -> [c EXCEPT !.spawnKind = "random",
                              !.nextRandomKind = createRandomShapeKind(r)]
      [] k = "w" -> [c EXCEPT !.windOn = ~@]
      [] k = "a" -> [c EXCEPT !.attractorOn = ~@]
      [] k = "s" -> [c EXCEPT !.slowMo = ~@]
      [] OTHER -> c

\* draws one round of the burst loop makes: jitterX, jitterY, vx, vy, r,
\* radius, three of materialFor
DrawsPerBurstEntity == 9

\* the kind one round of the burst loop spawns
BurstKind(mode, r) ==
    IF mode = "circle" \/ (mode = "random" /\ 3 * r < RandDen) THEN "circle"
    ELSE IF mode = "box" \/ (mode = "random" /\ 3 * r < 2 * RandDen) THEN "box"
    ELSE "triangle"

\* the loop of key b: round i = 0 .. BURST_COUNT - 1
BurstLoop(st, origin, mode, rnd) ==
    PushNewEntities(st,
        [j \in 1..BURST_COUNT |->
            LET k == (j - 1) * DrawsPerBurstEntity IN
            [x |-> origin.x + Symmetric(Draw(rnd, k + 1), BURST_JITTER),
             y |-> origin.y + Symmetric(Draw(rnd, k + 2), BURST_JITTER),
             kind |-> BurstKind(mode, Draw(rnd, k + 5))]])

\* the origin of a burst that is the window's centre whatever the pointer did
BurstOrigin_AlwaysCentre(pointer, win) ==
    [x |-> win.width \div 2, y |-> win.height \div 2]

\* lastPointerRef.current ?? { x: window.innerWidth / 2, y: window.innerHeight / 2 }
BurstOrigin(pointer, win) ==
    IF pointer.set THEN [x |-> pointer.x, y |-> pointer.y]
    ELSE [x |-> win.width \div 2, y |-> win.height \div 2]

\* the keys x and b acting without if (!world) return
EntitiesAfterKey_WithoutWorld(st, k, w, pointer, win, mode, rnd) ==
    CASE k = "x" ->
             LET c == clearAllEntities(st.entities, st.bodyPos)
             IN  [st EXCEPT !.entities = c.remaining, !.bodyPos = c.bodyPos]
      [] k = "b" -> BurstLoop(st, BurstOrigin(pointer, win), mode, rnd)
      [] OTHER -> st

\* the actions of handleKeyDown (keys x, b, q) on [entities, bodyPos, nextBody]
EntitiesAfterKey(st, k, w, pointer, win, mode, rnd) ==
    IF ~w.live THEN st
    ELSE CASE k = "x" ->
                 LET c == clearAllEntities(st.entities, st.bodyPos)
                 IN  [st EXCEPT !.entities = c.remaining, !.bodyPos = c.bodyPos]
           [] k = "b" -> BurstLoop(st, BurstOrigin(pointer, win), mode, rnd)
           [] OTHER -> st


----------------------------------------------------------------------------
(* Scenarios: the inputs and bounds a specification explores *)

InitialWindow == [width |-> 800, height |-> 600]

NarrowWindow == [width |-> 100, height |-> 600]

\* the input handlers, reset and frames of a short session
SessionScenario ==
    [bursts |-> 0, spawns |-> MaxSpawns, moves |-> 0,
     resets |-> MaxResets, resizes |-> 0, clock |-> MaxNow,
     streams |-> {<<500>>},
     pointers |-> {[x |-> 700, y |-> 300]},
     windows |-> {NarrowWindow},
     keys |-> {" ", "r", "x", "q"},
     steps |-> ClockSteps, sliders |-> {}, frames |-> FALSE, runs |-> 0,
     ctxOk |-> {TRUE}, downs |-> FALSE]

\* frames in which the engine moves bodies to and past the margins
CullScenario ==
    [bursts |-> 0, spawns |-> 0, moves |-> MaxMoves,
     resets |-> 0, resizes |-> MaxResizes, clock |-> MaxNow,
     streams |-> {<<500>>},
     pointers |-> {[x |-> 700, y |-> 300]},
     windows |-> {NarrowWindow},
     keys |-> {"s", "x"},
     steps |-> ClockSteps, sliders |-> {}, frames |-> FALSE, runs |-> 0,
     ctxOk |-> {TRUE}, downs |-> FALSE]

\* enough bursts to pass MAX_ENTITIES
CapScenario ==
    [bursts |-> CapBursts, spawns |-> 0, moves |-> 0,
     resets |-> 0, resizes |-> CapResizes, clock |-> 0,
     streams |-> {<<500>>},
     pointers |-> {[x |-> 700, y |-> 300]},
     windows |-> {NarrowWindow},
     keys |-> {"b", "x", " "},
     steps |-> ClockSteps, sliders |-> {}, frames |-> FALSE, runs |-> 0,
     ctxOk |-> {TRUE}, downs |-> FALSE]

\* frames, pause and resume, and reset by key and by button, as time passes
TimingScenario ==
    [bursts |-> 0, spawns |-> 0, moves |-> 0,
     resets |-> TimingResets, resizes |-> 0, clock |-> TimingTicks * TimingStep,
     streams |-> {<<500>>},
     pointers |-> {[x |-> 700, y |-> 300]},
     windows |-> {NarrowWindow},
     keys |-> {" ", "r", "x"},
     steps |-> {TimingStep}, sliders |-> {}, frames |-> TRUE, runs |-> 1,
     ctxOk |-> {TRUE}, downs |-> FALSE]

\* pointer-down and pointer-up at two places, any time apart around the click
\* threshold, with draws at both ends of Math.random()
PointerScenario ==
    [bursts |-> 0, spawns |-> PointerSpawns, moves |-> 0,
     resets |-> 0, resizes |-> 0, clock |-> PointerTicks * (CLICK_THRESHOLD_MS + 1),
     streams |-> {<<0>>, <<999, 0>>, <<500, 999>>},
     pointers |-> {[x |-> 700, y |-> 300], [x |-> 400, y |-> 450]},
     windows |-> {NarrowWindow},
     keys |-> {},
     steps |-> {CLICK_THRESHOLD_MS, CLICK_THRESHOLD_MS + 1}, sliders |-> {},
     frames |-> FALSE, runs |-> 0,
     ctxOk |-> {TRUE}, downs |-> FALSE]

\* frames between the handlers that change the entities and the controls
ControlScenario ==
    [bursts |-> ControlBursts, spawns |-> ControlSpawns, moves |-> 0,
     resets |-> 0, resizes |-> 0, clock |-> TimingStep,
     streams |-> {<<500>>},
     pointers |-> {[x |-> 700, y |-> 300]},
     windows |-> {NarrowWindow},
     keys |-> {"ArrowUp", "w", "s", "b", "x"},
     steps |-> {TimingStep}, sliders |-> {-45}, frames |-> TRUE, runs |-> 1,
     ctxOk |-> {TRUE}, downs |-> FALSE]

\* ToggleSpec: bursts
ToggleBursts == 1

\* the toggle keys in both letter cases, among keys that change the spawn
\* mode, the tilt and the list
ToggleScenario ==
    [bursts |-> ToggleBursts, spawns |-> 0, moves |-> 0,
     resets |-> 0, resizes |-> 0, clock |-> 0,
     streams |-> {<<500>>},
     pointers |-> {[x |-> 700, y |-> 300]},
     windows |-> {NarrowWindow},
     keys |-> {"w", "W", "a", "A", "s", "S", "2", "b"},
     steps |-> ClockSteps, sliders |-> {7}, frames |-> FALSE, runs |-> RunCap,
     ctxOk |-> {TRUE}, downs |-> FALSE]

\* BurstSpec: bursts and resizes
BurstBursts == 1

BurstResizes == 1

\* bursts with and without a pointer position, in the random and the fixed
\* spawn modes, with draws at both ends of Math.random()'s range
BurstScenario ==
    [bursts |-> BurstBursts, spawns |-> 0, moves |-> 0,
     resets |-> 0, resizes |-> BurstResizes, clock |-> 0,
     streams |-> {<<0>>, <<999, 500, 0>>},
     pointers |-> {[x |-> 20, y |-> 580]},
     windows |-> {InitialWindow, NarrowWindow},
     keys |-> {"b", "3", "0"},
     steps |-> ClockSteps, sliders |-> {}, frames |-> FALSE, runs |-> 1,
     ctxOk |-> {TRUE}, downs |-> FALSE]

\* PreviewSpec: pointer-up spawns
PreviewSpawns == 2

\* pointer-up spawns while pointer events are paired
PairSpawns == 2

\* clicks in the random mode and in a fixed mode, with draws of each kind
PreviewScenario ==
    [bursts |-> 0, spawns |-> PreviewSpawns, moves |-> 0,
     resets |-> 0, resizes |-> 0, clock |-> 0,
     streams |-> {<<0>>, <<500>>, <<999>>},
     pointers |-> {[x |-> 400, y |-> 300]},
     windows |-> {InitialWindow},
     keys |-> {"0", "1", "3"},
     steps |-> ClockSteps, sliders |-> {}, frames |-> FALSE, runs |-> 1,
     ctxOk |-> {TRUE}, downs |-> FALSE]

\* frames in which the engine moves bodies past the margins, with the tilt
\* slider moved between them
OrderScenario ==
    [bursts |-> 0, spawns |-> 0, moves |-> MaxMoves,
     resets |-> 0, resizes |-> 0, clock |-> MaxNow,
     streams |-> {<<500>>},
     pointers |-> {[x |-> 700, y |-> 300]},
     windows |-> {InitialWindow},
     keys |-> {"x", "ArrowUp"},
     steps |-> ClockSteps, sliders |-> {-45}, frames |-> FALSE, runs |-> 0,
     ctxOk |-> {TRUE}, downs |-> FALSE]

\* renders of the mounted page between frames, key presses that set state,
\* the tilt slider, the pause button and reset by key r, as time passes
RenderScenario ==
    [bursts |-> 0, spawns |-> 0, moves |-> 0,
     resets |-> TimingResets, resizes |-> 0, clock |-> TimingTicks * TimingStep,
     streams |-> {<<500>>},
     pointers |-> {[x |-> 700, y |-> 300]},
     windows |-> {NarrowWindow},
     keys |-> {"r", "w", "s"},
     steps |-> {TimingStep}, sliders |-> {-45}, frames |-> FALSE, runs |-> 1,
     ctxOk |-> {TRUE}, downs |-> FALSE]

\* the animation loop from mount to teardown: pause and resume by key and by
\* button, a canvas that may give no 2d context until a resize, as time passes
LoopScenario ==
    [bursts |-> 0, spawns |-> 0, moves |-> 0,
     resets |-> 0, resizes |-> HostResizes, clock |-> LoopTicks * TimingStep,
     streams |-> {<<500>>},
     pointers |-> {[x |-> 700, y |-> 300]},
     windows |-> {NarrowWindow},
     keys |-> {" "},
     steps |-> {TimingStep}, sliders |-> {}, frames |-> TRUE, runs |-> 0,
     ctxOk |-> {TRUE, FALSE}, downs |-> FALSE]

\* reset by key and by button after frames, a pointer-down, pause and every
\* setting changed
ResetScenario ==
    [bursts |-> 0, spawns |-> 0, moves |-> 0,
     resets |-> MaxResets, resizes |-> 0, clock |-> MaxNow,
     streams |-> {<<500>>},
     pointers |-> {[x |-> 700, y |-> 300]},
     windows |-> {NarrowWindow},
     keys |-> {"r", "w", "a", "s", "1", " "},
     steps |-> ClockSteps, sliders |-> {-45}, frames |-> FALSE, runs |-> 0,
     ctxOk |-> {TRUE}, downs |-> FALSE]

\* pointer-downs and pointer-ups in any order at two places as time passes,
\* on a page whose canvas may give no 2d context until a resize
PairScenario ==
    [bursts |-> 0, spawns |-> PairSpawns, moves |-> 0,
     resets |-> 0, resizes |-> HostResizes, clock |-> MaxNow,
     streams |-> {<<500>>},
     pointers |-> {[x |-> 700, y |-> 300], [x |-> 400, y |-> 450]},
     windows |-> {NarrowWindow},
     keys |-> {},
     steps |-> ClockSteps, sliders |-> {}, frames |-> FALSE, runs |-> 0,
     ctxOk |-> {TRUE, FALSE}, downs |-> TRUE]

\* positions the tilt slider is put at, between its min and its max
SliderPositions == {-45, -3, 0, 7, 45}

\* the tilt keys and the tilt slider
TiltScenario ==
    [bursts |-> 0, spawns |-> 0, moves |-> 0,
     resets |-> 0, resizes |-> 0, clock |-> 0,
     streams |-> {<<500>>},
     pointers |-> {[x |-> 700, y |-> 300]},
     windows |-> {NarrowWindow},
     keys |-> {"ArrowLeft", "ArrowRight", "ArrowUp"},
     steps |-> ClockSteps, sliders |-> SliderPositions, frames |-> FALSE,
     runs |-> RunCap,
     ctxOk |-> {TRUE}, downs |-> FALSE]

\* the page from mount to teardown, with a canvas that may give no 2d context
HostScenario ==
    [bursts |-> HostBursts, spawns |-> HostSpawns, moves |-> 0,
     resets |-> 0, resizes |-> HostResizes, clock |-> 0,
     streams |-> {<<500>>},
     pointers |-> {[x |-> 700, y |-> 300]},
     windows |-> {NarrowWindow},
     keys |-> {"x", "b", "q"},
     steps |-> ClockSteps, sliders |-> {}, frames |-> TRUE, runs |-> 1,
     ctxOk |-> {TRUE, FALSE}, downs |-> FALSE]

NothingUsed == [bursts |-> 0, spawns |-> 0, moves |-> 0, inits |-> 0, resizes |-> 0]

----------------------------------------------------------------------------
(* The session: DemoPage.tsx hosting BouncingShapes.tsx *)

\* the listeners the effects of DemoPage attach: resize on the window, the
\* pointer events on the canvas, keydown on the window
AllListeners == {"resize", "pointerdown", "pointermove", "pointerup", "keydown"}

Init(S) ==
    /\ world = NoWorld
    /\ entities = <<>>
    /\ accumulator = 0
    /\ simTime = 0
    /\ lastPointer = NoPoint
    /\ dragStart = NoDrag
    /\ tiltDeg = 0
    /\ windOn = FALSE
    /\ attractorOn = FALSE
    /\ slowMo = FALSE
    /\ spawnKind = "random"
    /\ nextRandomKind \in {createRandomShapeKind(Draw(rnd, 1)) : rnd \in S.streams}
    /\ onFrameRef = Controls
    /\ bodyPos = NoBodies
    /\ nextBody = 1
    /\ mounted = FALSE
    /\ animationRef = FALSE
    /\ pendingFrames = 0
    /\ listeners = {}
    /\ unmounted = FALSE
    /\ isPaused = FALSE
    /\ isPausedRef = FALSE
    /\ lastTime = 0
    /\ startTime = 0
    /\ frameCtx = NoCtx
    /\ now = 0
    /\ window = InitialWindow
    /\ call = NoCall
    /\ fed = 0
    /\ stepped = 0
    /\ calls = 0
    /\ pass = NoPass
    /\ spawn = NoSpawn
    /\ used = NothingUsed
    /\ frame = NoFrame
    /\ frameLog = NoFrameLog
    /\ key = NoKey

\* what a step that makes no driver call, no cleanup pass, no pointer-up, no
\* frame callback and no key press records
NoCallMade == call' = NoCall /\ UNCHANGED <<fed, stepped, calls>>

NoPassMade == pass' = NoPass

NoPointerUp == spawn' = NoSpawn

NoFrameTick == frame' = NoFrame /\ UNCHANGED frameLog

NoKeyPress == key' = NoKey

\* the state values of the render that follows a handler's state setters
Rendered ==
    [tiltDeg |-> tiltDeg', windOn |-> windOn', attractorOn |-> attractorOn',
     slowMo |-> slowMo', spawnKind |-> spawnKind', nextRandomKind |-> nextRandomKind']

\* the effect that forgets onFrameRef.current = onFrame
OnFrameEffect_Forgotten(ref, rendered) == ref

\* useEffect(() => { onFrameRef.current = onFrame }, [onFrame]): the ref after
\* the render's effects
OnFrameEffect(ref, rendered) == rendered

\* useEffect(() => { isPausedRef.current = isPaused }, [isPaused])
IsPausedEffect(rendered) == rendered

\* a handler's state setters are followed by the render and its effects
\* before the next callback runs
Commit ==
    /\ onFrameRef' = OnFrameEffect(onFrameRef, Rendered)
    /\ isPausedRef' = IsPausedEffect(isPaused')

\* ensureCanvasSize(): frameCtxRef.current afterwards
ensureCanvasSize(ctx, win, ctxOk) ==
    IF ctxOk THEN [set |-> TRUE, width |-> win.width, height |-> win.height] ELSE ctx

\* onInitRef.current(frameCtxRef.current), when there is a frame context
RunInit(S, ctx, rnd) ==
    IF ctx.set
    THEN LET r == onInit(used.inits + 1, ctx, entities, nextBody, rnd) IN
         /\ world' = r.world
         /\ entities' = r.entities
         /\ bodyPos' = r.bodyPos
         /\ nextBody' = r.nextBody
         /\ accumulator' = 0
         /\ used' = [used EXCEPT !.inits = @ + 1]
    ELSE UNCHANGED <<world, entities, bodyPos, nextBody, accumulator, used>>

\* the effects of DemoPage on mount: size the canvas, listen, start the
\* clocks, init, and request the first frame
Mount(S) ==
    /\ ~mounted
    /\ ~unmounted
    /\ \E ctxOk \in S.ctxOk, rnd \in S.streams :
          LET ctx == ensureCanvasSize(frameCtx, window, ctxOk) IN
          /\ frameCtx' = ctx
          /\ RunInit(S, ctx, rnd)
    /\ mounted' = TRUE
    /\ animationRef' = TRUE
    /\ pendingFrames' = pendingFrames + 1
    /\ listeners' = AllListeners
    /\ startTime' = now
    /\ lastTime' = now
    /\ NoCallMade /\ NoPassMade /\ NoPointerUp /\ NoFrameTick /\ NoKeyPress
    /\ UNCHANGED <<simTime, lastPointer, dragStart, unmounted, pauseVars, ctlVars, envVars>>

\* cleanup that leaves the frame callback requested
Cleanup_FrameNotCancelled(pending, ls) == [animationRef |-> pending, listeners |-> {}]

\* the cleanups of the effects: cancelAnimationFrame, and removeEventListener
\* for resize, the three pointer events and keydown
Cleanup(pending, ls) == [animationRef |-> FALSE, listeners |-> ls \ AllListeners]

\* teardown: the page is unmounted and the cleanups of its effects run
Unmount(S) ==
    /\ mounted
    /\ LET c == Cleanup(animationRef, listeners) IN
          /\ animationRef' = c.animationRef
          /\ pendingFrames' = pendingFrames - (IF animationRef /\ ~c.animationRef THEN 1 ELSE 0)
          /\ listeners' = c.listeners
    /\ mounted' = FALSE
    /\ unmounted' = TRUE
    /\ NoCallMade /\ NoPassMade /\ NoPointerUp /\ NoFrameTick /\ NoKeyPress
    /\ UNCHANGED <<simVars, ctlVars, pauseVars, lastTime, startTime, frameCtx, envVars, used>>

\* simDt that ignores slow motion
SimDt_Unscaled(slow, dt) == dt

\* const simDt = slowMo ? dt * CONFIG.SLOW_MO_FACTOR : dt
SimDt(slow, dt) == IF slow THEN (dt * SLOW_MO_FACTOR) \div 100 ELSE dt

\* onFrame(ctx) of BouncingShapes with a live world: set gravity, step the
\* world, clean up, draw; the closure holds the state values c.  The pass
\* records the gravity angle before the frame and the one its steps ran
\* under, the bodies the cleanup destroyed and the bodies the draw read
OnFrame(S, c, dt, width, height) ==
    LET simDt == SimDt(c.slowMo, dt)
        r == stepWorldWithForces(accumulator, simDt, TIME_STEP, simTime, FALSE)
    IN  \E mv \in EngineMoves(r.log, bodyPos, used.moves < S.moves, width, height) :
            LET moved == ApplyMove(bodyPos, mv)
                cl == cleanupEntities(entities, moved, width, height)
            IN  /\ world' = setGravityFromAngle(world, c.tiltDeg)
                /\ accumulator' = r.acc
                /\ simTime' = r.sim
                /\ call' = ForcesCall(simDt, accumulator, simTime, FALSE, r)
                /\ fed' = fed + simDt
                /\ stepped' = stepped + SumSteps(r.log)
                /\ entities' = cl.remaining
                /\ bodyPos' = destroyBodies(moved, cl.culled \cup cl.capped)
                /\ pass' = [ran |-> TRUE, input |-> BodiesOf(entities),
                            width |-> width, height |-> height,
                            culled |-> [b \in cl.culled |-> PixelPos(moved[b])],
                            capped |-> [b \in cl.capped |-> PixelPos(moved[b])],
                            gravity0 |-> world.gravityDeg,
                            gravityDeg |-> setGravityFromAngle(world, c.tiltDeg).gravityDeg,
                            drawn |-> drawEntities(ListDrawn(entities, cl))]
                /\ used' = [used EXCEPT !.moves = @ + (IF mv.moved THEN 1 ELSE 0)]
                /\ UNCHANGED <<nextBody, calls>>

\* animate that delivers frames also while paused
TickBranch_IgnoresPause(paused, ctx) == IF ctx.set THEN "frame" ELSE "skip"

\* the branch animate takes: paused, deliver the frame, or neither
TickBranch(paused, ctx) ==
    IF paused THEN "paused" ELSE IF ctx.set THEN "frame" ELSE "skip"

\* animate that leaves lastTimeRef alone while paused
LastTimeAfterTick_KeptWhilePaused(branch, last, t) == IF branch = "frame" THEN t ELSE last

\* lastTimeRef.current after animate(t)
LastTimeAfterTick(branch, last, t) == IF branch \in {"paused", "frame"} THEN t ELSE last

\* const t = (now - startTimeRef.current) / 1000, in ms
FrameTime(t, start) == t - start

\* what a frame callback records, in a scenario that follows frames: the
\* frame's dt and time fields (ms), when callbacks last ran, and, since the
\* timing origin now in force, the sum of the dt delivered (sum) and the time
\* that callbacks finding the host paused have let pass (idle)
FrameTick(S, branch, dtMs) ==
    IF ~S.frames THEN NoFrameTick ELSE
    /\ frame' = [ticked |-> TRUE, delivered |-> branch = "frame", dtMs |-> dtMs,
                 timedBefore |-> frameLog.timed, sinceTimed |-> now - frameLog.timedAt,
                 deliveredBefore |-> frameLog.delivered,
                 sinceDelivered |-> now - frameLog.deliveredAt,
                 tiltDeg |-> onFrameRef.tiltDeg, slowMo |-> onFrameRef.slowMo,
                 time |-> IF branch = "frame" THEN FrameTime(now, startTime) ELSE 0]
    /\ frameLog' = [timed |-> frameLog.timed \/ branch # "skip",
                    timedAt |-> IF branch # "skip" THEN now ELSE frameLog.timedAt,
                    delivered |-> frameLog.delivered \/ branch = "frame",
                    deliveredAt |-> IF branch = "frame" THEN now ELSE frameLog.deliveredAt,
                    origin |-> startTime,
                    sum |-> (IF frameLog.origin = startTime THEN frameLog.sum ELSE 0)
                            + (IF branch = "frame" THEN dtMs ELSE 0),
                    idle |-> (IF frameLog.origin = startTime THEN frameLog.idle ELSE 0)
                             + (IF branch = "paused" THEN now - lastTime ELSE 0)]

\* animate that requests no successor while the host is paused
RequestsAfterTick_NoneWhilePaused(branch) == IF branch = "paused" THEN 0 ELSE 1

\* the requestAnimationFrame(animate) calls of one animate, whatever its branch
RequestsAfterTick(branch) == 1

\* animate(now): one animation-frame callback; it requests the next one
AnimationFrame(S) ==
    /\ animationRef
    /\ pendingFrames > 0
    /\ LET branch == TickBranch(isPausedRef, frameCtx)
           deltaMs == now - lastTime
       IN  /\ lastTime' = LastTimeAfterTick(branch, lastTime, now)
           /\ FrameTick(S, branch, IF branch = "frame" THEN deltaMs ELSE 0)
           /\ IF branch = "frame" /\ world.live
              THEN OnFrame(S, onFrameRef, deltaMs * TicksPerMs,
                           frameCtx.width, frameCtx.height)
              ELSE /\ NoCallMade /\ NoPassMade
                   /\ UNCHANGED <<world, entities, accumulator, simTime, bodyPos,
                                  nextBody, used>>
           /\ animationRef' = (RequestsAfterTick(branch) > 0)
           /\ pendingFrames' = (pendingFrames - 1) + RequestsAfterTick(branch)
    /\ NoPointerUp /\ NoKeyPress
    /\ UNCHANGED <<lastPointer, dragStart, ctlVars, mounted, listeners, unmounted,
                   pauseVars, startTime, frameCtx, envVars>>

\* time passes
AdvanceClock(S) ==
    /\ \E d \in S.steps :
          /\ now + d <= S.clock
          /\ now' = now + d
    /\ NoCallMade /\ NoPassMade /\ NoPointerUp /\ NoFrameTick /\ NoKeyPress
    /\ UNCHANGED <<simVars, ctlVars, hostVars, window, used>>

\* a window resize event: handleResize -> ensureCanvasSize
Resize(S) ==
    /\ "resize" \in listeners
    /\ used.resizes < S.resizes
    /\ \E win \in S.windows \ {window}, ctxOk \in S.ctxOk :
          /\ window' = win
          /\ frameCtx' = ensureCanvasSize(frameCtx, win, ctxOk)
    /\ used' = [used EXCEPT !.resizes = @ + 1]
    /\ NoCallMade /\ NoPassMade /\ NoPointerUp /\ NoFrameTick /\ NoKeyPress
    /\ UNCHANGED <<simVars, ctlVars, mountVars, pauseVars, lastTime, startTime, now>>

\* pointer-down that keeps a drag start already recorded
StartAfterPointerDown_FirstKept(old, p, t) ==
    IF old.set THEN old ELSE [set |-> TRUE, x |-> p.x, y |-> p.y, t |-> t]

\* dragRef.current.start = { x: p.x, y: p.y, t: performance.now() }
StartAfterPointerDown(old, p, t) == [set |-> TRUE, x |-> p.x, y |-> p.y, t |-> t]

\* what a pointer-down records, in a scenario that follows them: the drag
\* start it found
PointerDownMade(S) ==
    spawn' = IF S.downs
             THEN [NoSpawn EXCEPT !.down = TRUE, !.hadStart = dragStart.set,
                                  !.startX = dragStart.x, !.startY = dragStart.y,
                                  !.startT = dragStart.t]
             ELSE NoSpawn

\* pointerdown on the canvas -> handlePointerDown
PointerDown(S) ==
    /\ "pointerdown" \in listeners
    /\ frameCtx.set
    /\ \E p \in S.pointers :
          IF world.live
          THEN /\ lastPointer' = [set |-> TRUE, x |-> p.x, y |-> p.y]
               /\ dragStart' = StartAfterPointerDown(dragStart, p, now)
          ELSE UNCHANGED <<lastPointer, dragStart>>
    /\ NoCallMade /\ NoPassMade /\ PointerDownMade(S) /\ NoFrameTick /\ NoKeyPress
    /\ UNCHANGED <<world, entities, accumulator, simTime, bodyPos, nextBody,
                   ctlVars, hostVars, envVars, used>>

\* pointermove on the canvas -> handlePointerMove
PointerMove(S) ==
    /\ "pointermove" \in listeners
    /\ frameCtx.set
    /\ \E p \in S.pointers : lastPointer' = [set |-> TRUE, x |-> p.x, y |-> p.y]
    /\ NoCallMade /\ NoPassMade /\ NoPointerUp /\ NoFrameTick /\ NoKeyPress
    /\ UNCHANGED <<world, entities, accumulator, simTime, dragStart, bodyPos, nextBody,
                   ctlVars, hostVars, envVars, used>>

\* VELOCITY_RANGES, px/s; DRAG_MULTIPLIER = 0.6 in tenths
CLICK_VX_RANGE == 120

CLICK_VY_BASE == 200

CLICK_VY_RANGE == 160

DRAG_MULTIPLIER == 6

\* the click test that takes a pair of exactly the threshold for a drag
IsClick_BelowThreshold(dtMs) == dtMs < CLICK_THRESHOLD_MS

\* dtMs <= CONFIG.CLICK_THRESHOLD_MS
IsClick(dtMs) == dtMs <= CLICK_THRESHOLD_MS

\* click-to-drop: (Math.random() - 0.5) * CLICK_VX_RANGE and
\* CLICK_VY_BASE + Math.random() * CLICK_VY_RANGE, from the draws r1, r2
ClickVelocity(r1, r2) ==
    [vxPx |-> Frac((2 * r1 - RandDen) * CLICK_VX_RANGE, 2 * RandDen),
     vyPx |-> Frac(CLICK_VY_BASE * RandDen + r2 * CLICK_VY_RANGE, RandDen)]

\* the drag velocity computed per millisecond instead of per second
DragVelocity_PerMillisecond(dx, dy, dtMs) ==
    [vxPx |-> Frac(dx * DRAG_MULTIPLIER, dtMs * 10),
     vyPx |-> Frac(dy * DRAG_MULTIPLIER, dtMs * 10)]

\* drag-to-throw: (p - start) / (dtMs / 1000) * DRAG_MULTIPLIER
DragVelocity(dx, dy, dtMs) ==
    [vxPx |-> Frac(dx * 1000 * DRAG_MULTIPLIER, dtMs * 10),
     vyPx |-> Frac(dy * 1000 * DRAG_MULTIPLIER, dtMs * 10)]

\* handlePointerUp goes on past: if (!start || !world) return
SpawnsOnPointerUp(start, w) == start.set /\ w.live

\* kindToSpawn that is the random kind in the fixed modes too
KindToSpawn_AlwaysNext(mode, next) == next

\* kindToSpawn = spawnKind === 'random' ? nextRandomKind : spawnKind
KindToSpawn(mode, next) == IF mode = "random" THEN next ELSE mode

\* ghostKind of onFrame, from the controls c its closure holds
ghostKind(c) == IF c.spawnKind = "random" THEN c.nextRandomKind ELSE c.spawnKind

\* pointerup on the canvas -> handlePointerUp
PointerUp(S) ==
    /\ "pointerup" \in listeners
    /\ frameCtx.set
    /\ \E p \in S.pointers, rnd \in S.streams :
          LET start == dragStart
              dtMs == Max2(16, now - start.t)
              click == IsClick(dtMs)
              vel == IF click THEN ClickVelocity(Draw(rnd, 1), Draw(rnd, 2))
                     ELSE DragVelocity(p.x - start.x, p.y - start.y, dtMs)
              kindToSpawn == KindToSpawn(spawnKind, nextRandomKind)
              st == SpawnAt([entities |-> entities, bodyPos |-> bodyPos,
                             nextBody |-> nextBody], p.x, p.y, kindToSpawn)
              \* draws before createRandomShapeKind: vx, vy (click only),
              \* radius, three of materialFor
              kindDraw == IF click THEN 7 ELSE 5
          IN  /\ dragStart' = NoDrag
              /\ IF SpawnsOnPointerUp(start, world)
                 THEN /\ used.spawns < S.spawns
                      /\ entities' = st.entities
                      /\ bodyPos' = st.bodyPos
                      /\ nextBody' = st.nextBody
                      /\ nextRandomKind' =
                            IF spawnKind = "random"
                            THEN createRandomShapeKind(Draw(rnd, kindDraw))
                            ELSE nextRandomKind
                      /\ spawn' = [up |-> TRUE, spawned |-> TRUE,
                                   path |-> IF click THEN "click" ELSE "drag",
                                   body |-> nextBody, kind |-> kindToSpawn,
                                   x |-> p.x, y |-> p.y,
                                   startX |-> start.x, startY |-> start.y,
                                   startT |-> start.t, dtMs |-> dtMs,
                                   vxPx |-> vel.vxPx, vyPx |-> vel.vyPx,
                                   count0 |-> Len(entities),
                                   down |-> FALSE, hadStart |-> start.set]
                      /\ used' = [used EXCEPT !.spawns = @ + 1]
                 ELSE /\ spawn' = [NoSpawn EXCEPT !.up = TRUE, !.hadStart = start.set]
                      /\ UNCHANGED <<entities, bodyPos, nextBody, nextRandomKind, used>>
    /\ NoCallMade /\ NoPassMade /\ NoFrameTick /\ NoKeyPress
    /\ UNCHANGED <<world, accumulator, simTime, lastPointer, tiltDeg, windOn,
                   attractorOn, slowMo, spawnKind, mountVars, isPaused, lastTime,
                   startTime, frameCtx, envVars>>
    /\ Commit

\* init that restarts the simulated time
simTimeAfterInit_Zeroed(t) == 0

\* simTimeRef.current after onInit, which assigns the world, the list and the
\* accumulator and nothing else
simTimeAfterInit(t) == t

\* key r and the HUD reset button: restart the clocks and run init again
Reset(S, rnd) ==
    /\ used.inits <= S.resets
    /\ startTime' = now
    /\ lastTime' = now
    /\ RunInit(S, frameCtx, rnd)
    /\ simTime' = IF frameCtx.set THEN simTimeAfterInit(simTime) ELSE simTime

\* what a key press records, in a scenario that follows keys: the event's
\* key e, the key k the handlers take it for, how many times in a row k has
\* been pressed (counted up to S.runs), and the tilt and the controls before
\* the first of them
KeyPress(S, k, e) ==
    key' = IF S.runs = 0 THEN NoKey
           ELSE IF key.pressed /\ key.k = k
           THEN [key EXCEPT !.run = Min2(S.runs, @ + 1), !.e = e]
           ELSE [pressed |-> TRUE, e |-> e, k |-> k, run |-> 1, tilt0 |-> tiltDeg,
                 ctl0 |-> IF S.runs > 1 THEN Controls ELSE <<>>]

\* toLowerCase that leaves the key as it is
toLowerCase_AsIs(e) == e

\* e.key.toLowerCase(), for the keys of the scenarios
toLowerCase(e) ==
    CASE e = "W" -> "w"
      [] e = "A" -> "a"
      [] e = "S" -> "s"
      [] e = "R" -> "r"
      [] e = "X" -> "x"
      [] e = "B" -> "b"
      [] e = "Q" -> "q"
      [] e = "ArrowLeft" -> "arrowleft"
      [] e = "ArrowRight" -> "arrowright"
      [] e = "ArrowUp" -> "arrowup"
      [] OTHER -> e

\* keydown on the window: the host's handler, then handleKeyDown of the page
KeyDown(S) ==
    /\ "keydown" \in listeners
    /\ \E e \in S.keys, rnd \in S.streams :
          LET k == toLowerCase(e)
              c == ControlsAfterKey(Controls, k, Draw(rnd, 1))
              st == EntitiesAfterKey([entities |-> entities, bodyPos |-> bodyPos,
                                      nextBody |-> nextBody],
                                     k, world, lastPointer, window, spawnKind, rnd)
          IN  /\ isPaused' = IF k = " " THEN ~isPaused ELSE isPaused
              /\ IF k = "r"
                 THEN Reset(S, rnd)
                 ELSE /\ (k = "b" /\ world.live) => used.bursts < S.bursts
                      /\ entities' = st.entities
                      /\ bodyPos' = st.bodyPos
                      /\ nextBody' = st.nextBody
                      /\ used' = [used EXCEPT !.bursts =
                                     @ + (IF k = "b" /\ world.live THEN 1 ELSE 0)]
                      /\ UNCHANGED <<world, accumulator, simTime, startTime, lastTime>>
              /\ tiltDeg' = c.tiltDeg
              /\ windOn' = c.windOn
              /\ attractorOn' = c.attractorOn
              /\ slowMo' = c.slowMo
              /\ spawnKind' = c.spawnKind
              /\ nextRandomKind' = c.nextRandomKind
              /\ KeyPress(S, k, e)
    /\ NoCallMade /\ NoPassMade /\ NoPointerUp /\ NoFrameTick
    /\ UNCHANGED <<lastPointer, dragStart, mountVars, frameCtx, envVars>>
    /\ Commit

\* a string is the sequence of its characters' codes: "0" is 48, "-" is 45
IsDigit(ch) == ch \in 48..57

RECURSIVE DecimalDigits(_)
\* the decimal string of n >= 0
DecimalDigits(n) ==
    IF n < 10 THEN <<48 + n>> ELSE Append(DecimalDigits(n \div 10), 48 + (n % 10))

\* e.target.value of the tilt slider (type range, min -45, max 45, step 1)
\* put at position v: the decimal string of v
SliderValue(v) ==
    IF v < 0 THEN <<45>> \o DecimalDigits(-v) ELSE DecimalDigits(v)

RECURSIVE ParseDigits(_, _)
\* the number read from the leading digits of str, after acc
ParseDigits(str, acc) ==
    IF str # <<>> /\ IsDigit(Head(str))
    THEN ParseDigits(Tail(str), 10 * acc + (Head(str) - 48))
    ELSE acc

\* parseInt(str, 10) of a string that starts with an optional "-" and a digit
parseInt(str) ==
    IF Head(str) = 45 THEN -ParseDigits(Tail(str), 0) ELSE ParseDigits(str, 0)

\* the tilt slider: onChange -> setTiltDeg(parseInt(e.target.value, 10))
SliderChange(S) ==
    /\ mounted
    /\ \E v \in S.sliders : tiltDeg' = parseInt(SliderValue(v))
    /\ NoCallMade /\ NoPassMade /\ NoPointerUp /\ NoFrameTick /\ NoKeyPress
    /\ UNCHANGED <<simVars, windOn, attractorOn, slowMo, spawnKind, nextRandomKind,
                   mountVars, isPaused, lastTime, startTime, frameCtx, envVars, used>>
    /\ Commit

\* the HUD's reset button: handleReset
HudReset(S) ==
    /\ mounted
    /\ \E rnd \in S.streams : Reset(S, rnd)
    /\ NoCallMade /\ NoPassMade /\ NoPointerUp /\ NoFrameTick /\ NoKeyPress
    /\ UNCHANGED <<lastPointer, dragStart, ctlVars, mountVars, pauseVars,
                   frameCtx, envVars>>

\* the HUD's pause button: handlePause
HudPause ==
    /\ mounted
    /\ isPaused' = ~isPaused
    /\ isPausedRef' = IsPausedEffect(isPaused')
    /\ NoCallMade /\ NoPassMade /\ NoPointerUp /\ NoFrameTick /\ NoKeyPress
    /\ UNCHANGED <<simVars, ctlVars, mountVars, lastTime, startTime, frameCtx,
                   envVars, used>>

\* the components whose state a render follows: DemoPage (fps, help, debug
\* and pause) and the page that passes it its callbacks (tilt, wind,
\* attractor, slow-mo, spawn mode)
Components == {"DemoPage", "BouncingShapes"}

\* the values a render of the component creates anew, of those the effects of
\* DemoPage depend on: the callbacks are function expressions in the body of
\* BouncingShapes, ensureCanvasSize is memoised with no dependencies
RecreatedByRender(component) ==
    IF component = "BouncingShapes"
    THEN {"onInit", "onFrame", "onPointerDown", "onPointerMove", "onPointerUp", "onKeyDown"}
    ELSE {}

\* the dependency list with the callbacks in it
LoopEffectDeps_WithCallbacks == {"onInit", "onFrame", "ensureCanvasSize"}

\* the dependency list of the effect that sizes the canvas, runs init and
\* starts the animation loop
LoopEffectDeps == {"ensureCanvasSize"}

\* an effect runs again after a render that changed one of its dependencies
EffectReruns(deps, component) == deps \cap RecreatedByRender(component) # {}

\* a render of the mounted page after a state change of one of its
\* components, with the loop effect's cleanup and the effect again if its
\* dependencies changed: size the canvas, restart the clocks, init, request
\* a frame
Render(S) ==
    /\ mounted
    /\ \E component \in Components :
          IF EffectReruns(LoopEffectDeps, component)
          THEN /\ used.inits <= S.resets
               /\ \E ctxOk \in S.ctxOk, rnd \in S.streams :
                     LET ctx == ensureCanvasSize(frameCtx, window, ctxOk) IN
                     /\ frameCtx' = ctx
                     /\ RunInit(S, ctx, rnd)
               /\ startTime' = now
               /\ lastTime' = now
          ELSE UNCHANGED <<world, entities, bodyPos, nextBody, accumulator, used,
                           frameCtx, startTime, lastTime>>
    /\ NoCallMade /\ NoPassMade /\ NoPointerUp /\ NoFrameTick /\ NoKeyPress
    /\ UNCHANGED <<simTime, lastPointer, dragStart, ctlVars, mountVars, pauseVars, envVars>>

Next ==
    \/ Mount(SessionScenario)
    \/ AnimationFrame(SessionScenario)
    \/ AdvanceClock(SessionScenario)
    \/ PointerDown(SessionScenario)
    \/ PointerMove(SessionScenario)
    \/ PointerUp(SessionScenario)
    \/ KeyDown(SessionScenario)
    \/ HudReset(SessionScenario)
    \/ HudPause

Spec == Init(SessionScenario) /\ [][Next]_vars

\* frames over a world whose bodies the engine moves, with resizes, slow
\* motion and clear
CullNext ==
    \/ Mount(CullScenario)
    \/ AnimationFrame(CullScenario)
    \/ AdvanceClock(CullScenario)
    \/ Resize(CullScenario)
    \/ KeyDown(CullScenario)

CullSpec == Init(CullScenario) /\ [][CullNext]_vars

\* the session followed far enough to pass MAX_ENTITIES: bursts, frames,
\* clear, pause and a resize, at one instant
CapNext ==
    \/ Mount(CapScenario)
    \/ AnimationFrame(CapScenario)
    \/ Resize(CapScenario)
    \/ KeyDown(CapScenario)

CapSpec == Init(CapScenario) /\ [][CapNext]_vars

\* frames, pause and resume by key and by button, reset by key and by button
TimingNext ==
    \/ Mount(TimingScenario)
    \/ AnimationFrame(TimingScenario)
    \/ AdvanceClock(TimingScenario)
    \/ KeyDown(TimingScenario)
    \/ HudReset(TimingScenario)
    \/ HudPause

TimingSpec == Init(TimingScenario) /\ [][TimingNext]_vars

\* pointer-down and pointer-up, any time apart
PointerNext ==
    \/ Mount(PointerScenario)
    \/ AdvanceClock(PointerScenario)
    \/ PointerDown(PointerScenario)
    \/ PointerUp(PointerScenario)

PointerSpec == Init(PointerScenario) /\ [][PointerNext]_vars

\* frames between the handlers that change the entities and the controls
ControlNext ==
    \/ Mount(ControlScenario)
    \/ AnimationFrame(ControlScenario)
    \/ AdvanceClock(ControlScenario)
    \/ PointerDown(ControlScenario)
    \/ PointerUp(ControlScenario)
    \/ KeyDown(ControlScenario)
    \/ SliderChange(ControlScenario)

ControlSpec == Init(ControlScenario) /\ [][ControlNext]_vars

\* the toggle keys among other keys and the slider
ToggleNext ==
    \/ Mount(ToggleScenario)
    \/ KeyDown(ToggleScenario)
    \/ SliderChange(ToggleScenario)

ToggleSpec == Init(ToggleScenario) /\ [][ToggleNext]_vars

\* key b among the keys of the spawn mode, pointer-downs and a resize
BurstNext ==
    \/ Mount(BurstScenario)
    \/ KeyDown(BurstScenario)
    \/ PointerDown(BurstScenario)
    \/ Resize(BurstScenario)

BurstSpec == Init(BurstScenario) /\ [][BurstNext]_vars

\* clicks among the keys of the spawn mode
PreviewNext ==
    \/ Mount(PreviewScenario)
    \/ PointerDown(PreviewScenario)
    \/ PointerUp(PreviewScenario)
    \/ KeyDown(PreviewScenario)

PreviewSpec == Init(PreviewScenario) /\ [][PreviewNext]_vars

\* frames with engine moves, the tilt slider and key x
OrderNext ==
    \/ Mount(OrderScenario)
    \/ AnimationFrame(OrderScenario)
    \/ AdvanceClock(OrderScenario)
    \/ SliderChange(OrderScenario)
    \/ KeyDown(OrderScenario)

OrderSpec == Init(OrderScenario) /\ [][OrderNext]_vars

\* renders between frames, state changes and resets
RenderNext ==
    \/ Mount(RenderScenario)
    \/ AnimationFrame(RenderScenario)
    \/ AdvanceClock(RenderScenario)
    \/ KeyDown(RenderScenario)
    \/ SliderChange(RenderScenario)
    \/ HudPause
    \/ Render(RenderScenario)

RenderSpec == Init(RenderScenario) /\ [][RenderNext]_vars

\* the animation loop, paused and resumed, with and without a frame context
LoopNext ==
    \/ Mount(LoopScenario)
    \/ Unmount(LoopScenario)
    \/ AnimationFrame(LoopScenario)
    \/ AdvanceClock(LoopScenario)
    \/ Resize(LoopScenario)
    \/ KeyDown(LoopScenario)
    \/ HudPause

LoopSpec == Init(LoopScenario) /\ [][LoopNext]_vars

\* the browser runs a requested animation-frame callback
LoopFairSpec == LoopSpec /\ WF_vars(AnimationFrame(LoopScenario))

\* resets among frames, pointer-downs and setting changes
ResetNext ==
    \/ Mount(ResetScenario)
    \/ AnimationFrame(ResetScenario)
    \/ AdvanceClock(ResetScenario)
    \/ PointerDown(ResetScenario)
    \/ KeyDown(ResetScenario)
    \/ SliderChange(ResetScenario)
    \/ HudReset(ResetScenario)

ResetSpec == Init(ResetScenario) /\ [][ResetNext]_vars

\* pointer events in any order
PairNext ==
    \/ Mount(PairScenario)
    \/ AdvanceClock(PairScenario)
    \/ Resize(PairScenario)
    \/ PointerDown(PairScenario)
    \/ PointerMove(PairScenario)
    \/ PointerUp(PairScenario)

PairSpec == Init(PairScenario) /\ [][PairNext]_vars

\* the tilt keys and the tilt slider, in any order
TiltNext ==
    \/ Mount(TiltScenario)
    \/ KeyDown(TiltScenario)
    \/ SliderChange(TiltScenario)

TiltSpec == Init(TiltScenario) /\ [][TiltNext]_vars

\* the page from mount to teardown: frames, resizes, the pointer and the keys
\* that act on the entities, with and without a world
HostNext ==
    \/ Mount(HostScenario)
    \/ Unmount(HostScenario)
    \/ AnimationFrame(HostScenario)
    \/ Resize(HostScenario)
    \/ PointerDown(HostScenario)
    \/ PointerUp(HostScenario)
    \/ KeyDown(HostScenario)

HostSpec == Init(HostScenario) /\ [][HostNext]_vars

----------------------------------------------------------------------------
(* The driver on its own: any sequence of calls of the two drivers on one  *)
(* accumulator                                                             *)

DriverInit == Init(SessionScenario)

DriverUnchanged ==
    UNCHANGED <<world, entities, lastPointer, dragStart, bodyPos, nextBody,
                ctlVars, hostVars, envVars, pass, spawn, used, frame, frameLog, key>>

CallStepWorldWithForces ==
    /\ \E dt \in DriverDts, hasAfter \in BOOLEAN :
        LET r == stepWorldWithForces(accumulator, dt, TIME_STEP, simTime, hasAfter) IN
        /\ calls < MaxDriverCalls
        /\ accumulator' = r.acc
        /\ simTime' = r.sim
        /\ call' = ForcesCall(dt, accumulator, simTime, hasAfter, r)
        /\ fed' = fed + dt
        /\ stepped' = stepped + SumSteps(r.log)
        /\ calls' = calls + 1
    /\ DriverUnchanged

CallStepWithFixedTimestep ==
    /\ \E dt \in DriverDts :
        LET r == stepWithFixedTimestep(accumulator, dt, TIME_STEP) IN
        /\ calls < MaxDriverCalls
        /\ accumulator' = r.acc
        /\ call' = [op |-> "fixed", dt |-> dt, ts |-> TIME_STEP, acc0 |-> accumulator,
                    sim0 |-> simTime, hasAfter |-> FALSE, log |-> r.log, ret |-> 0]
        /\ fed' = fed + dt
        /\ stepped' = stepped + SumSteps(r.log)
        /\ calls' = calls + 1
        /\ UNCHANGED simTime
    /\ DriverUnchanged

DriverNext ==
    \/ CallStepWorldWithForces
    \/ CallStepWithFixedTimestep

DriverSpec == DriverInit /\ [][DriverNext]_vars

----------------------------------------------------------------------------
(* The frame loop of the earlier revisions of BouncingShapes *)

\* onFrame of the first revision with an engine: accumulatorRef.current += dt,
\* then stepWithFixedTimestep(world, accumulatorRef, dt, timeStep)
onFrameFixedStep(acc, dt) == stepWithFixedTimestep(acc + dt, dt, TIME_STEP)

\* onFrame of the revision with slow motion: simDt = slowMo ? dt * 0.33 : dt,
\* accumulatorRef.current += simDt, then stepWithFixedTimestep(.., simDt, timeStep)
onFrameSlowMo(acc, dt, slow) ==
    LET simDt == SimDt(slow, dt) IN stepWithFixedTimestep(acc + simDt, simDt, TIME_STEP)

\* the record of a frame of an earlier revision: the simulation dt it was
\* given and the engine steps r it made
RevisionFrame(op, simDt, r) ==
    [op |-> op, dt |-> simDt, ts |-> TIME_STEP, acc0 |-> accumulator,
     sim0 |-> simTime, hasAfter |-> FALSE, log |-> r.log, ret |-> 0]

\* a frame of the first revision with an engine
FrameFixedStep ==
    /\ calls < MaxDriverCalls
    /\ calls = 0 \/ call.op = "onFrameFixedStep"
    /\ \E dt \in DriverDts :
        LET r == onFrameFixedStep(accumulator, dt) IN
        /\ accumulator' = r.acc
        /\ call' = RevisionFrame("onFrameFixedStep", dt, r)
        /\ fed' = fed + dt
        /\ stepped' = stepped + SumSteps(r.log)
    /\ calls' = calls + 1
    /\ UNCHANGED simTime
    /\ DriverUnchanged

\* a frame of the revision with slow motion
FrameSlowMo ==
    /\ calls < MaxDriverCalls
    /\ calls = 0 \/ call.op = "onFrameSlowMo"
    /\ \E dt \in DriverDts, slow \in BOOLEAN :
        LET r == onFrameSlowMo(accumulator, dt, slow) IN
        /\ accumulator' = r.acc
        /\ call' = RevisionFrame("onFrameSlowMo", SimDt(slow, dt), r)
        /\ fed' = fed + SimDt(slow, dt)
        /\ stepped' = stepped + SumSteps(r.log)
    /\ calls' = calls + 1
    /\ UNCHANGED simTime
    /\ DriverUnchanged

RevisionNext ==
    \/ FrameFixedStep
    \/ FrameSlowMo

RevisionSpec == DriverInit /\ [][RevisionNext]_vars

----------------------------------------------------------------------------
(* Materials: physics.ts *)

\* density, friction and restitution are held in units of 1 / MatScale
MatScale == 100000

\* MATERIALS: the base material of each shape kind
MATERIALS ==
    [circle |-> [density |-> 80000, friction |-> 15000, restitution |-> 90000],
     box |-> [density |-> 150000, friction |-> 45000, restitution |-> 20000],
     triangle |-> [density |-> 110000, friction |-> 30000, restitution |-> 55000]]

\* clamp01(v) = Math.max(0, Math.min(1, v))
clamp01(v) == Max2(0, Min2(MatScale, v))

\* jitter(value, amount) = value + (Math.random() * 2 - 1) * amount, r the draw
jitter(value, amount, r) == value + ((2 * r - RandDen) * amount) \div RandDen

\* materialFor that jitters by ten times the amounts and does not clamp
materialFor_WideUnclamped(kind, r1, r2, r3) ==
    LET base == MATERIALS[kind] IN
    [density |-> jitter(base.density, MatScale, r1),
     friction |-> jitter(base.friction, (3 * MatScale) \div 10, r2),
     restitution |-> jitter(base.restitution, (5 * MatScale) \div 10, r3)]

\* materialFor(kind), its three draws being r1, r2, r3
materialFor(kind, r1, r2, r3) ==
    LET base == MATERIALS[kind] IN
    [density |-> Max2(MatScale \div 10, jitter(base.density, MatScale \div 10, r1)),
     friction |-> clamp01(jitter(base.friction, (3 * MatScale) \div 100, r2)),
     restitution |-> clamp01(jitter(base.restitution, (5 * MatScale) \div 100, r3))]

\* the shape kinds
ShapeKinds == {"circle", "box", "triangle"}

\* the draws materialFor is tried with: both ends of Math.random() and between
MaterialDraws == {0, 250, 500, 750, 999}

\* a call of materialFor, as createCircleEntity, createBoxEntity and
\* createTriangleEntity make for every body
CallMaterialFor ==
    /\ \E kind \in ShapeKinds, r1 \in MaterialDraws, r2 \in MaterialDraws,
          r3 \in MaterialDraws :
          call' = [op |-> "materialFor", kind |-> kind, draws |-> <<r1, r2, r3>>,
                   ret |-> materialFor(kind, r1, r2, r3)]
    /\ UNCHANGED <<accumulator, simTime, fed, stepped, calls>>
    /\ DriverUnchanged

MaterialNext == CallMaterialFor

MaterialSpec == DriverInit /\ [][MaterialNext]_vars

----------------------------------------------------------------------------
(* Speed clamps: physics.ts *)

\* a velocity in m/s is the pair (x / d, y / d), d > 0
Vec(x, y, d) == [x |-> x, y |-> y, d |-> d]

Abs(n) == IF n < 0 THEN -n ELSE n

\* x * x + y * y of the numerators
NormSq(v) == v.x * v.x + v.y * v.y

\* Math.hypot(v.x, v.y) * d for a velocity whose speed is rational: the whole
\* number h with h * h = x * x + y * y
HypotNum(v) == CHOOSE h \in 0..(Abs(v.x) + Abs(v.y)) : h * h = NormSq(v)

\* clampBodySpeed that clamps each axis on its own
clampBodySpeed_PerAxis(v, cap) ==
    Vec(Max2(-cap * v.d, Min2(cap * v.d, v.x)),
        Max2(-cap * v.d, Min2(cap * v.d, v.y)), v.d)

\* clampBodySpeed(body, maxSpeedMps): the body's linear velocity afterwards.
\* speed = h / d; scale = cap / speed = cap * d / h; v * scale
clampBodySpeed(v, cap) ==
    LET h == HypotNum(v) IN
    IF h > cap * v.d /\ h > 0
    THEN Vec(v.x * (cap * v.d), v.y * (cap * v.d), v.d * h)
    ELSE v

\* clampWorldSpeeds(world, maxSpeedMps): the same on every dynamic body of
\* the body list; bodies = sequence of [dynamic, v]
clampWorldSpeeds(bodies, cap) ==
    [i \in 1..Len(bodies) |->
        IF ~bodies[i].dynamic THEN bodies[i]
        ELSE [bodies[i] EXCEPT !.v = clampBodySpeed(bodies[i].v, cap)]]

\* velocities of rational speed: at rest, along an axis, and whole-number
\* right triangles in every quadrant, in whole and in half m/s
ClampVelocities ==
    {Vec(0, 0, 1), Vec(0, -7, 1), Vec(9, 0, 2)} \cup
    {Vec(sx * t[1], sy * t[2], d) :
        sx \in {-1, 1}, sy \in {-1, 1}, d \in {1, 2},
        t \in {<<3, 4>>, <<4, 3>>, <<6, 8>>, <<5, 12>>, <<8, 15>>}}

\* caps, m/s
ClampCaps == {0, 5, 10, 13}

\* a call of clampBodySpeed on a body of some velocity, and a second call
\* right after it
CallClampBodySpeed ==
    /\ \E v \in ClampVelocities, cap \in ClampCaps :
          LET once == clampBodySpeed(v, cap) IN
          call' = [op |-> "clampBodySpeed", v |-> v, cap |-> cap, once |-> once,
                   twice |-> clampBodySpeed(once, cap)]
    /\ UNCHANGED <<accumulator, simTime, fed, stepped, calls>>
    /\ DriverUnchanged

\* a call of clampWorldSpeeds on a world of a dynamic and a static body, and
\* a second call right after it
CallClampWorldSpeeds ==
    /\ \E v \in ClampVelocities, cap \in ClampCaps :
          LET bodies == <<[dynamic |-> TRUE, v |-> v],
                          [dynamic |-> FALSE, v |-> Vec(0, 0, 1)]>>
              once == clampWorldSpeeds(bodies, cap)
          IN  call' = [op |-> "clampWorldSpeeds", v |-> v, cap |-> cap,
                       once |-> once[1].v,
                       twice |-> clampWorldSpeeds(once, cap)[1].v]
    /\ UNCHANGED <<accumulator, simTime, fed, stepped, calls>>
    /\ DriverUnchanged

ClampNext ==
    \/ CallClampBodySpeed
    \/ CallClampWorldSpeeds

ClampSpec == DriverInit /\ [][ClampNext]_vars

----------------------------------------------------------------------------
(* Claims about the driver, checked under DriverSpec *)

StepsOf(log) == EventsAt(log, "step")

\* C1: after a stepWorldWithForces call the engine has been advanced, in
\* total, by exactly the sum of the dt fed in so far, and the call returns
\* the time its own world.step calls advanced.
C1_Conservation ==
    call.op = "forces" =>
        /\ stepped = fed
        /\ call.ret = SumSteps(call.log)

C1_Witness ==
    /\ call.op = "forces"
    /\ calls >= 2
    /\ Cardinality(StepsOf(call.log)) >= 2
    /\ call.ret = call.dt
    /\ call.dt % call.ts # 0

\* C2: immediately after either driver returns, given dt >= 0 and a prior
\* accumulator in [0, timestep), the accumulator is in [0, timestep).
C2_AccumulatorRange ==
    (call.op # "none" /\ call.dt >= 0 /\ 0 <= call.acc0 /\ call.acc0 < call.ts)
        => (0 <= accumulator /\ accumulator < call.ts)

C2_Witness ==
    /\ call.op = "fixed"
    /\ call.acc0 > 0
    /\ StepsOf(call.log) # {}
    /\ accumulator > 0

\* C3: in a stepWorldWithForces call every world.step is immediately
\* preceded by one applyForces and, when afterStep is given, immediately
\* followed by one afterStep; every applyForces is immediately followed by a
\* world.step, so there are as many applyForces calls as steps.
C3_ForcesStepAfter ==
    call.op = "forces" =>
        LET log == call.log IN
        /\ \A i \in StepsOf(log) :
              /\ i > 1 /\ log[i - 1].ev = "applyForces"
              /\ call.hasAfter => (i < Len(log) /\ log[i + 1].ev = "afterStep")
        /\ \A i \in EventsAt(log, "applyForces") :
              i < Len(log) /\ log[i + 1].ev = "step"
        /\ \A i \in EventsAt(log, "afterStep") :
              call.hasAfter /\ i > 1 /\ log[i - 1].ev = "step"
        /\ Cardinality(EventsAt(log, "applyForces")) = Cardinality(StepsOf(log))

C3_Witness ==
    /\ call.op = "forces"
    /\ call.hasAfter
    /\ Cardinality(StepsOf(call.log)) >= 3
    /\ call.dt % call.ts # 0

\* C4: the steps of one stepWorldWithForces call are zero or more steps of
\* exactly the timestep followed by at most one partial step, of a size > 0
\* and < timestep; nothing is stepped after the partial step.
C4_FullThenPartial ==
    call.op = "forces" =>
        \A i \in StepsOf(call.log) :
            \/ call.log[i].arg = call.ts
            \/ /\ 0 < call.log[i].arg
               /\ call.log[i].arg < call.ts
               /\ \A j \in StepsOf(call.log) : j <= i

C4_Witness ==
    /\ call.op = "forces"
    /\ \E i, j \in StepsOf(call.log) :
          i < j /\ call.log[i].arg = call.ts /\ call.log[j].arg < call.ts

\* C5: every stepWorldWithForces call makes at least one world.step.
C5_AtLeastOneStep ==
    call.op = "forces" => StepsOf(call.log) # {}

\* C6: simTimeRef never decreases; a stepWorldWithForces call advances it by
\* exactly the time its steps advance the engine, and hands each applyForces
\* the simulated time accumulated before that substep; nothing else moves it.
C6_SimTimeLockstep ==
    [][ /\ simTime' >= simTime
        /\ (call'.op = "forces" /\ call' # call) =>
              /\ simTime' - simTime = stepped' - stepped
              /\ \A i \in EventsAt(call'.log, "applyForces") :
                    call'.log[i].arg = simTime + SumSteps(SubSeq(call'.log, 1, i - 1))
        /\ (call'.op # "forces" \/ call' = call) => simTime' = simTime
      ]_vars

C6_Witness ==
    /\ call.op = "forces"
    /\ call.sim0 > 0
    /\ Cardinality(StepsOf(call.log)) >= 2
    /\ call.dt % call.ts # 0

----------------------------------------------------------------------------
(* Claims about the entity lifecycle *)

\* the last n elements of a sequence
LastOf(seq, n) == SubSeq(seq, Len(seq) - n + 1, Len(seq))

\* the bodies of a pass's input list that its cull left, in list order
CullSurvivors == SelectSeq(pass.input, LAMBDA b : b \notin DOMAIN pass.culled)

\* C7 as stated: a cleanupEntities pass over a list longer than MAX_ENTITIES
\* leaves exactly MAX_ENTITIES entities, the most recently inserted ones of
\* that list.
C7_ExactlyMaxMostRecent ==
    (pass.ran /\ Len(pass.input) > MAX_ENTITIES) =>
        /\ Len(entities) = MAX_ENTITIES
        /\ BodiesOf(entities) = LastOf(pass.input, MAX_ENTITIES)

\* C7 amended: a cleanupEntities pass leaves min(MAX_ENTITIES, n) entities,
\* n being the number of entities its cull leaves: the most recently inserted
\* of those; so a list of which more than MAX_ENTITIES pass the cull, and a
\* list longer than MAX_ENTITIES of which none is culled, comes out with
\* exactly MAX_ENTITIES entities, and the cap destroys the bodies it drops.
C7_CapAfterCull ==
    pass.ran =>
        /\ Len(entities) = Min2(MAX_ENTITIES, Len(CullSurvivors))
        /\ BodiesOf(entities) = LastOf(CullSurvivors, Len(entities))
        /\ (Len(CullSurvivors) > MAX_ENTITIES => Len(entities) = MAX_ENTITIES)
        /\ DOMAIN pass.capped = Range(CullSurvivors) \ Range(BodiesOf(entities))
        /\ DOMAIN pass.capped \cap DOMAIN bodyPos = {}

\* a pass over more than MAX_ENTITIES entities that culled some and capped some
C7_Witness ==
    /\ pass.ran
    /\ Len(pass.input) > MAX_ENTITIES
    /\ DOMAIN pass.culled # {}
    /\ DOMAIN pass.capped # {}
    /\ Len(entities) = MAX_ENTITIES

\* C8 as stated: in every state of a session there are at most MAX_ENTITIES
\* active entities.
C8_AtMostMaxAlways == Len(entities) <= MAX_ENTITIES

\* C8 amended: there are at most MAX_ENTITIES active entities when a frame's
\* cleanup pass has run; between frames (and without bound while paused)
\* spawns take the count above MAX_ENTITIES.
C8_AtMostMaxAfterFrame == pass.ran => Len(entities) <= MAX_ENTITIES

\* a frame that found a whole burst too many and removed it
C8_Witness ==
    /\ pass.ran
    /\ Len(pass.input) = MAX_ENTITIES + BURST_COUNT
    /\ Cardinality(DOMAIN pass.capped) = BURST_COUNT
    /\ Len(entities) = MAX_ENTITIES

\* where a body of a pass's input was (hundredths of a pixel) when the pass
\* looked at it
PassPosition(b) ==
    IF b \in DOMAIN pass.culled THEN pass.culled[b]
    ELSE IF b \in DOMAIN pass.capped THEN pass.capped[b]
    ELSE PixelPos(bodyPos[b])

\* C9: a cleanupEntities pass culls an entity iff its pixel position has
\* x < -margin or x > width + margin or y > height + margin (strict, margin
\* 200); an entity above the top edge with x in range is not culled; a culled
\* entity is dropped from the list and its body destroyed, the others are kept
\* unless the cap removes them.
C9_CullIffBeyondMargin ==
    pass.ran =>
        \A i \in 1..Len(pass.input) :
            LET b == pass.input[i]
                p == PassPosition(b)
            IN  /\ b \in DOMAIN pass.culled <=>
                      \/ p[1] < Px(-ENTITY_MARGIN)
                      \/ p[1] > Px(pass.width + ENTITY_MARGIN)
                      \/ p[2] > Px(pass.height + ENTITY_MARGIN)
                /\ (p[2] < 0 /\ p[1] >= 0 /\ p[1] <= Px(pass.width))
                      => b \notin DOMAIN pass.culled
                /\ b \in DOMAIN pass.culled =>
                      /\ b \notin DOMAIN bodyPos
                      /\ b \notin Range(BodiesOf(entities))
                /\ b \notin (DOMAIN pass.culled \cup DOMAIN pass.capped) =>
                      /\ b \in DOMAIN bodyPos
                      /\ b \in Range(BodiesOf(entities))

\* a pass that culled some entities and kept one that is far above the top edge
C9_Witness ==
    /\ pass.ran
    /\ DOMAIN pass.culled # {}
    /\ \E b \in Range(BodiesOf(entities)) :
          /\ b \in Range(pass.input)
          /\ PixelPos(bodyPos[b])[2] = Px(-FarAbove)

\* C10: every entity of the active list has a body of the live world that is
\* not destroyed, and the list names no body twice.
C10_BodiesLive ==
    /\ \A i \in 1..Len(entities) : entities[i].body \in DOMAIN bodyPos
    /\ entities # <<>> => world.live
    /\ \A i, j \in 1..Len(entities) : entities[i].body = entities[j].body => i = j

\* a pointer-up that spawned after a reset, its pointer-down before the reset
C10_Witness ==
    /\ spawn.spawned
    /\ used.inits >= 2
    /\ spawn.startT < startTime
    /\ entities[Len(entities)].body = spawn.body

----------------------------------------------------------------------------
(* C11: one world, discarded on reset and on teardown *)

\* C11: exactly one world is live at a time: once init has run there is the
\* world of the latest init and the engine holds no body of an earlier one,
\* and after teardown no world is left and every body has been destroyed.
C11_OneWorldDiscardedOnTeardown ==
    /\ (used.inits > 0 /\ ~unmounted) =>
           /\ world.live
           /\ world.id = used.inits
           /\ DOMAIN bodyPos = Range(BodiesOf(entities))
    /\ unmounted => (~world.live /\ DOMAIN bodyPos = {})

----------------------------------------------------------------------------
(* C12: the dt of a delivered frame *)

LastTimed ==
    IF frame.timedBefore THEN Max2(startTime, now - frame.sinceTimed) ELSE startTime

----------------------------------------------------------------------------
(* C13: frame callbacks while paused *)

\* C13: a frame callback that finds the host paused does not invoke onFrame:
\* no driver call and no cleanup pass is made, the world, the accumulator,
\* simTime, the active list and the bodies stay as they are, and the next
\* frame callback is requested.
C13_PausedTicksIdle ==
    [][(isPaused /\ frame'.ticked) =>
           /\ ~frame'.delivered
           /\ call' = NoCall
           /\ pass' = NoPass
           /\ UNCHANGED <<world, entities, bodyPos, accumulator, simTime, fed, stepped>>
           /\ animationRef']_vars

\* a frame callback over a live world while paused, time having passed since
\* the last frame
C13_Witness ==
    /\ isPaused
    /\ frame.ticked
    /\ ~frame.delivered
    /\ frame.deliveredBefore
    /\ frame.sinceDelivered > 0
    /\ world.live
    /\ entities # <<>>
    /\ animationRef

----------------------------------------------------------------------------
(* C14: reset *)

\* a step that is a reset: key r, or the first of a step that runs init on
\* the mounted page (key r or the HUD's reset button)
IsResetStep ==
    \/ key'.pressed /\ key'.k = "r"
    \/ mounted /\ used'.inits = used.inits + 1

\* C14: a reset with a frame context runs init once more with that context
\* and restarts the clocks: right after it there is a new world whose bounds
\* are the context's size, the active list holds exactly INITIAL_ENTITIES
\* entities, each on a body created by this init and live in the engine, no
\* other body is left, and the accumulator is 0.
C14_ResetReinitialises ==
    [][(IsResetStep /\ frameCtx.set) =>
           /\ used'.inits = used.inits + 1
           /\ startTime' = now /\ lastTime' = now
           /\ world'.live
           /\ world'.id # world.id
           /\ world'.boundsW = pixelsToMeters(frameCtx.width, PPM)
           /\ world'.boundsH = pixelsToMeters(frameCtx.height, PPM)
           /\ Len(entities') = INITIAL_ENTITIES
           /\ \A i \in 1..Len(entities') :
                 /\ entities'[i].body >= nextBody
                 /\ entities'[i].body \in DOMAIN bodyPos'
                 /\ \A j \in 1..Len(entities') :
                       entities'[i].body = entities'[j].body => i = j
           /\ DOMAIN bodyPos' = Range(BodiesOf(entities'))
           /\ accumulator' = 0]_vars

\* right after a reset made later than the mount, the world being the second
\* one and simTime showing that frames ran before it
C14_Witness ==
    /\ used.inits = 2
    /\ world.id = 2
    /\ startTime > 0
    /\ startTime = now
    /\ simTime > 0
    /\ Len(entities) = INITIAL_ENTITIES
    /\ ~frame.ticked

----------------------------------------------------------------------------
(* C15: the tilt angle *)

\* C15: the tilt angle stays within [-45, 45] whatever tilt keys are pressed
\* and wherever the slider is put; n arrow-right presses in a row from tilt t
\* give min(45, t + 5n), so nine from 0 give 45; n arrow-left presses give
\* max(-45, t - 5n); arrow-up gives 0.
C15_TiltClamped ==
    /\ tiltDeg \in -45..45
    /\ (key.pressed /\ key.k = "arrowup") => tiltDeg = 0
    /\ (key.pressed /\ key.k = "arrowright" /\ key.run < RunCap) =>
           tiltDeg = Min2(45, key.tilt0 + 5 * key.run)
    /\ (key.pressed /\ key.k = "arrowleft" /\ key.run < RunCap) =>
           tiltDeg = Max2(-45, key.tilt0 - 5 * key.run)
    /\ (key.pressed /\ key.k = "arrowright" /\ key.tilt0 = 0 /\ key.run = 9) =>
           tiltDeg = 45

\* the ninth arrow-right press in a row from tilt 0
C15_Witness ==
    /\ key.pressed
    /\ key.k = "arrowright"
    /\ key.tilt0 = 0
    /\ key.run = 9
    /\ tiltDeg = 45

----------------------------------------------------------------------------
(* C16, C17: click-to-drop and drag-to-throw *)

\* a pointer-up that ends a pointer-down/pointer-up pair over a live world
EndsPair == spawn'.up /\ dragStart.set /\ world.live

\* the pointer-up of this step added exactly one entity, on a new body at the
\* release point
SpawnedOneAtRelease ==
    /\ spawn'.spawned
    /\ Len(entities') = Len(entities) + 1
    /\ SubSeq(entities', 1, Len(entities)) = entities
    /\ entities'[Len(entities')].body = spawn'.body
    /\ spawn'.body \notin DOMAIN bodyPos
    /\ DOMAIN bodyPos' = DOMAIN bodyPos \cup {spawn'.body}
    /\ bodyPos'[spawn'.body] =
           <<pixelsToMeters(spawn'.x, PPM), pixelsToMeters(spawn'.y, PPM)>>

\* lo <= v < hi for the fraction v (its denominator positive), lo and hi whole
FracWithin(v, lo, hi) == v.den > 0 /\ lo * v.den <= v.num /\ v.num < hi * v.den

\* C16: a pointer-down/pointer-up pair at most CLICK_THRESHOLD_MS apart
\* spawns exactly one entity at the release point on the click path, with
\* vyPx in [200, 360) and vxPx in [-60, 60), whatever the displacement.
C16_ClickPath ==
    [][(EndsPair /\ now - dragStart.t <= CLICK_THRESHOLD_MS) =>
           /\ SpawnedOneAtRelease
           /\ spawn'.path = "click"
           /\ FracWithin(spawn'.vyPx, 200, 360)
           /\ FracWithin(spawn'.vxPx, -60, 60)]_vars

\* a pair exactly the threshold apart, the pointer having moved
C16_Witness ==
    /\ spawn.spawned
    /\ spawn.path = "click"
    /\ now - spawn.startT = CLICK_THRESHOLD_MS
    /\ spawn.x # spawn.startX
    /\ spawn.y # spawn.startY

\* the sign of a whole number
Sign(n) == IF n > 0 THEN 1 ELSE IF n < 0 THEN -1 ELSE 0

\* the fraction v is d / (ms / 1000) * 0.6, that is 600 * d / ms
IsDragVelocity(v, d, ms) ==
    /\ v.den > 0
    /\ v.num * ms = 600 * d * v.den
    /\ Sign(v.num) = Sign(d)

\* C17: a pointer-down/pointer-up pair more than CLICK_THRESHOLD_MS apart
\* spawns exactly one entity at the release point on the drag path, its
\* velocity on each axis being displacement / elapsed seconds * 0.6, of the
\* displacement's sign, and zero for zero displacement.
C17_DragPath ==
    [][(EndsPair /\ now - dragStart.t > CLICK_THRESHOLD_MS) =>
           /\ SpawnedOneAtRelease
           /\ spawn'.path = "drag"
           /\ IsDragVelocity(spawn'.vxPx, spawn'.x - dragStart.x, now - dragStart.t)
           /\ IsDragVelocity(spawn'.vyPx, spawn'.y - dragStart.y, now - dragStart.t)]_vars

\* a pair one millisecond over the threshold, the pointer having moved left
\* and down
C17_Witness ==
    /\ spawn.spawned
    /\ spawn.path = "drag"
    /\ now - spawn.startT = CLICK_THRESHOLD_MS + 1
    /\ spawn.x < spawn.startX
    /\ spawn.y > spawn.startY
    /\ spawn.vxPx.num < 0
    /\ spawn.vyPx.num > 0

\* a drag that ends where it began
C17_WitnessStill ==
    /\ spawn.spawned
    /\ spawn.path = "drag"
    /\ spawn.x = spawn.startX
    /\ spawn.y = spawn.startY
    /\ spawn.vxPx.num = 0
    /\ spawn.vyPx.num = 0

----------------------------------------------------------------------------
(* C18: without a world *)

\* C18: while the mounted page has no world, frame callbacks, pointer-down,
\* pointer-up and the keys x, b and q change nothing of the simulation: no
\* world appears, no entity and no body is created or destroyed, no drag is
\* begun, no driver call is made, accumulator and simTime stay as they are.
C18_NoWorldNoOp ==
    [][(mounted /\ ~world.live) =>
           /\ UNCHANGED <<world, entities, bodyPos, nextBody, accumulator, simTime,
                          lastPointer, dragStart, fed, stepped>>
           /\ call' = NoCall
           /\ pass' = NoPass
           /\ ~spawn'.spawned]_vars

\* key b pressed with a frame context and no world
C18_Witness ==
    /\ mounted
    /\ ~world.live
    /\ frameCtx.set
    /\ key.pressed
    /\ key.k = "b"
    /\ entities = <<>>

\* a frame delivered to onFrame with no world
C18_WitnessFrame ==
    /\ ~world.live
    /\ frame.delivered

\* a pointer-up handled with no world
C18_WitnessPointerUp ==
    /\ ~world.live
    /\ frameCtx.set
    /\ spawn.up

----------------------------------------------------------------------------
(* C20: teardown *)

\* C20: once the page is torn down no frame callback is requested and no
\* resize, pointer or keydown listener is attached, and from then on no frame
\* callback, pointer-up or key handler runs and nothing of the simulation, the
\* controls or the host changes.
C20_TeardownSilences ==
    /\ [](unmounted => (~animationRef /\ listeners = {}))
    /\ [][unmounted =>
             /\ ~frame'.ticked
             /\ ~spawn'.up
             /\ ~key'.pressed
             /\ UNCHANGED <<simVars, ctlVars, hostVars, fed, stepped>>]_vars

\* torn down with a live world, a pointer held down and a frame callback
\* having been pending
C20_Witness ==
    /\ unmounted
    /\ ~mounted
    /\ world.live
    /\ entities # <<>>
    /\ dragStart.set
    /\ frameCtx.set

----------------------------------------------------------------------------
(* C19: handlers and frames *)

\* the dt onFrame hands to the driver for a frame of dtMs under the current
\* slow-motion setting, ticks
SimDtNow(dtMs) ==
    IF slowMo THEN (dtMs * TicksPerMs * SLOW_MO_FACTOR) \div 100 ELSE dtMs * TicksPerMs

\* C19: a step is a frame callback or a handler, never both: a pointer-up or
\* a key press makes no driver call and no cleanup pass.  Whatever the
\* handlers before a frame did to the list and to the controls, the frame
\* sees: gravity is set from the current tilt, the driver is fed under the
\* current slow-motion setting, wind and attractor are the current ones, and
\* the cleanup pass runs over the list as the handlers left it, its outcome
\* being the list the frame ends with.
C19_FramesSeeHandlers ==
    /\ [](onFrameRef = Controls)
    /\ [][/\ (spawn'.up \/ key'.pressed) =>
                (~frame'.ticked /\ call' = NoCall /\ pass' = NoPass)
          /\ (frame'.delivered /\ world.live) =>
                /\ ~spawn'.up /\ ~key'.pressed
                /\ world'.gravityDeg = tiltDeg
                /\ call'.dt = SimDtNow(frame'.dtMs)
                /\ pass'.ran
                /\ pass'.input = BodiesOf(entities)
                /\ Range(BodiesOf(entities')) =
                       Range(pass'.input) \ (DOMAIN pass'.culled \cup DOMAIN pass'.capped)
                /\ UNCHANGED ctlVars]_vars

\* a frame right after the handlers changed tilt, slow motion and the list
C19_Witness ==
    /\ frame.delivered
    /\ frame.dtMs > 0
    /\ world.live
    /\ tiltDeg # 0
    /\ world.gravityDeg = tiltDeg
    /\ slowMo
    /\ windOn
    /\ call.dt > 0
    /\ Len(pass.input) = INITIAL_ENTITIES + BURST_COUNT + 1

----------------------------------------------------------------------------
(* C21: slow motion *)

\* the time a delivered frame of dtMs is to advance the simulation by, in
\* hundredths of a tick: dt when slow motion is off, dt * SLOW_MO_FACTOR when on
ScaledHundredths(dtMs) ==
    IF slowMo THEN dtMs * TicksPerMs * SLOW_MO_FACTOR ELSE dtMs * TicksPerMs * 100

\* each applyForces of the log was handed the simulation time reached by the
\* steps before it, counted from sim0
ForcesFollowSimTime(log, sim0) ==
    \A i \in EventsAt(log, "applyForces") :
        log[i].arg = sim0 + SumSteps(SubSeq(log, 1, i - 1))

\* C21: a delivered frame of wall-clock dt advances the engine and simTime by
\* exactly dt * SLOW_MO_FACTOR with slow motion on and by dt with it off; the
\* forces of each substep (the wind's phase) are given the simulation time so
\* advanced; the frame is delivered and the next one requested either way.
C21_SlowMoScalesTime ==
    [][(frame'.delivered /\ world.live) =>
           /\ 100 * (simTime' - simTime) = ScaledHundredths(frame'.dtMs)
           /\ 100 * (stepped' - stepped) = ScaledHundredths(frame'.dtMs)
           /\ 100 * call'.dt = ScaledHundredths(frame'.dtMs)
           /\ ForcesFollowSimTime(call'.log, simTime)
           /\ frame'.dtMs = now - lastTime
           /\ lastTime' = now
           /\ animationRef']_vars

\* a frame of 20 ms delivered with slow motion and wind on
C21_Witness ==
    /\ frame.delivered
    /\ world.live
    /\ slowMo
    /\ windOn
    /\ frame.dtMs = TimingStep
    /\ 100 * call.dt = TimingStep * TicksPerMs * SLOW_MO_FACTOR
    /\ EventsAt(call.log, "applyForces") # {}

\* a frame of 20 ms delivered with slow motion off: a whole step and a partial one
C21_WitnessOff ==
    /\ frame.delivered
    /\ world.live
    /\ ~slowMo
    /\ frame.dtMs = TimingStep
    /\ Cardinality(StepsOf(call.log)) = 2

----------------------------------------------------------------------------
(* C22: materials *)

\* C22: for every shape kind and every draw, materialFor gives a friction
\* and a restitution within [0, 1] and a density of at least 0.1, so strictly
\* positive.
C22_MaterialInRange ==
    call.op = "materialFor" =>
        /\ call.ret.friction \in 0..MatScale
        /\ call.ret.restitution \in 0..MatScale
        /\ 10 * call.ret.density >= MatScale
        /\ call.ret.density > 0

\* a circle with the lowest density draw and the highest restitution draw
C22_Witness ==
    /\ call.op = "materialFor"
    /\ call.kind = "circle"
    /\ call.draws[1] = 0
    /\ call.draws[3] = 999
    /\ call.ret.density = 70000
    /\ call.ret.restitution > MATERIALS["circle"].restitution

----------------------------------------------------------------------------
(* C23: clamping a body's speed *)

\* the velocities a and b are equal
VecEq(a, b) == a.x * b.d = b.x * a.d /\ a.y * b.d = b.y * a.d

\* the speed of v is over cap
OverCap(v, cap) == NormSq(v) > cap * cap * v.d * v.d

\* a points the way b does: along the same line, and not against it
SameDirection(a, b) ==
    /\ a.x * b.y = a.y * b.x
    /\ a.x * b.x + a.y * b.y >= 0

C23_WitnessAtCap ==
    /\ call.op = "clampBodySpeed"
    /\ call.v = Vec(5, -12, 1)
    /\ call.cap = 13
    /\ call.once = call.v

----------------------------------------------------------------------------
(* C24: the toggle keys *)

\* the flags after key e, were it to flip its own flag and no other
FlagsFlippedBy(e) ==
    [windOn |-> IF e \in {"w", "W"} THEN ~windOn ELSE windOn,
     attractorOn |-> IF e \in {"a", "A"} THEN ~attractorOn ELSE attractorOn,
     slowMo |-> IF e \in {"s", "S"} THEN ~slowMo ELSE slowMo]

\* C24: each of the keys w, a, s, in either letter case, flips its own flag
\* and leaves the other two flags, the tilt, the spawn mode, the preview kind
\* and the entities as they are; the same key pressed twice in a row leaves
\* the controls as they were before the first press.
C24_TogglesFlipOwnFlag ==
    /\ [][(key'.pressed /\ key'.e \in {"w", "W", "a", "A", "s", "S"}) =>
             /\ [windOn |-> windOn', attractorOn |-> attractorOn', slowMo |-> slowMo']
                    = FlagsFlippedBy(key'.e)
             /\ UNCHANGED <<tiltDeg, spawnKind, nextRandomKind, entities, bodyPos,
                            nextBody, world, accumulator, simTime>>]_vars
    /\ []((key.pressed /\ key.k \in {"w", "a", "s"} /\ key.run = 2) =>
             Controls = key.ctl0)

\* S pressed right after s, with the tilt, the spawn mode and the list changed
\* before
C24_Witness ==
    /\ key.pressed
    /\ key.e = "S"
    /\ key.k = "s"
    /\ key.run = 2
    /\ ~slowMo
    /\ windOn
    /\ tiltDeg = 7
    /\ spawnKind = "box"
    /\ Len(entities) = INITIAL_ENTITIES + BURST_COUNT

----------------------------------------------------------------------------
(* C25: key x clears the world's entities *)

\* C25: a press of x with a live world destroys the body of every entity of
\* the active list and leaves the list empty; the world and its boundary
\* rectangle stay, and the accumulator, simTime and the control flags are
\* unchanged.
C25_ClearDestroysAll ==
    [][(key'.pressed /\ key'.k = "x" /\ world.live) =>
          /\ entities' = <<>>
          /\ Range(BodiesOf(entities)) \cap DOMAIN bodyPos' = {}
          /\ DOMAIN bodyPos' = DOMAIN bodyPos \ Range(BodiesOf(entities))
          /\ world' = world
          /\ UNCHANGED <<accumulator, simTime, isPaused, tiltDeg, windOn, attractorOn,
                         slowMo, spawnKind, nextRandomKind>>]_vars

\* x has just been pressed with a live world whose list held the initial
\* entities and a burst: no body is left
C25_Witness ==
    /\ key.pressed /\ key.k = "x" /\ world.live
    /\ entities = <<>> /\ DOMAIN bodyPos = {}
    /\ nextBody > INITIAL_ENTITIES + BURST_COUNT

----------------------------------------------------------------------------
(* C26: key b spawns a burst *)

\* where a burst is centred: the last pointer position, or the centre of the
\* viewport when there is none
BurstCentre ==
    IF lastPointer.set THEN [x |-> lastPointer.x, y |-> lastPointer.y]
    ELSE [x |-> window.width \div 2, y |-> window.height \div 2]

\* position m (metres x MeterScale) is within px pixels of pixel c
WithinPixels(m, c, px) == Abs(m * PPM - c * MeterScale) <= px * MeterScale

\* C26: a press of b with a live world appends exactly BURST_COUNT entities
\* to the end of the active list, each with a new body within BURST_JITTER
\* pixels, on each axis, of the last pointer position, or of the centre of
\* the viewport when no pointer position has been recorded; in a fixed spawn
\* mode all of them have that kind.
C26_BurstAppendsTen ==
    [][(key'.pressed /\ key'.k = "b" /\ world.live) =>
          LET n == Len(entities) IN
          /\ Len(entities') = n + BURST_COUNT
          /\ SubSeq(entities', 1, n) = entities
          /\ \A i \in (n + 1)..(n + BURST_COUNT) :
                LET b == entities'[i].body IN
                /\ b \notin DOMAIN bodyPos
                /\ b \in DOMAIN bodyPos'
                /\ WithinPixels(bodyPos'[b][1], BurstCentre.x, BURST_JITTER)
                /\ WithinPixels(bodyPos'[b][2], BurstCentre.y, BURST_JITTER)
                /\ spawnKind # "random" => entities'[i].kind = spawnKind
          /\ \A i, j \in (n + 1)..(n + BURST_COUNT) :
                i # j => entities'[i].body # entities'[j].body]_vars

\* a burst of triangles at the pointer, far from the centre of the window
C26_Witness ==
    /\ key.pressed /\ key.k = "b" /\ world.live
    /\ lastPointer.set /\ lastPointer.x = 20 /\ spawnKind = "triangle"
    /\ Len(entities) = INITIAL_ENTITIES + BURST_COUNT
    /\ entities[Len(entities)].kind = "triangle"

\* a burst in random mode with no pointer position, after a resize
C26_WitnessCentre ==
    /\ key.pressed /\ key.k = "b" /\ world.live
    /\ ~lastPointer.set /\ spawnKind = "random" /\ window = NarrowWindow
    /\ Len(entities) = INITIAL_ENTITIES + BurstBursts * BURST_COUNT

----------------------------------------------------------------------------
(* C27: the boundary rectangle and the viewport *)

\* C27: whenever a world is live, its boundary rectangle is
\* [0, width / PPM] x [0, height / PPM] for the width and height of the
\* current frame context, the one the frame loop and the cull pass use, also
\* after a resize of the window.
C27_BoundsMatchViewport ==
    world.live =>
        /\ frameCtx.set
        /\ world.boundsW = pixelsToMeters(frameCtx.width, PPM)
        /\ world.boundsH = pixelsToMeters(frameCtx.height, PPM)

----------------------------------------------------------------------------
(* C28: stepWithFixedTimestep *)

\* C28: a call of stepWithFixedTimestep with accumulator a before it and
\* dt >= 0 makes exactly floor((a + dt) / timestep) calls, each an engine
\* step of size timestep (no partial step, no callback), and leaves the
\* accumulator at (a + dt) - steps x timestep, so the time stepped plus the
\* remainder is a + dt.
C28_WholeStepsOnly ==
    (call.op = "fixed" /\ call.dt >= 0) =>
        LET total == call.acc0 + call.dt
            steps == total \div call.ts
        IN  /\ Len(call.log) = steps
            /\ \A i \in 1..Len(call.log) : call.log[i] = Ev("step", call.ts)
            /\ accumulator = total - steps * call.ts
            /\ SumSteps(call.log) + accumulator = total

\* a call that starts with a remainder, makes two whole steps and leaves a
\* remainder
C28_Witness ==
    /\ call.op = "fixed"
    /\ call.acc0 > 0
    /\ Len(call.log) = 2
    /\ accumulator > 0
    /\ call.dt % call.ts # 0

----------------------------------------------------------------------------
(* C29: the ghost preview and the kind spawned *)

\* a pointer-up spawns the kind the preview shows: in random mode that is
\* nextRandomKind, in a fixed mode the fixed kind, and there the pointer-up
\* leaves nextRandomKind as it is
SpawnsThePreview ==
    spawn'.spawned =>
        /\ spawn'.kind = ghostKind(onFrameRef)
        /\ entities'[Len(entities')].kind = spawn'.kind
        /\ spawnKind = "random" => spawn'.kind = nextRandomKind
        /\ spawnKind # "random" =>
              /\ spawn'.kind = spawnKind
              /\ nextRandomKind' = nextRandomKind

\* C29, as stated: in random mode the entity a pointer-up spawns has the
\* kind the ghost preview shows (nextRandomKind), and nextRandomKind is
\* re-drawn only after such a spawn; in a fixed mode the spawned kind and the
\* preview are the fixed kind and nextRandomKind is left unchanged.
C29_RedrawnOnlyAfterSpawn ==
    [][/\ SpawnsThePreview
       /\ nextRandomKind' # nextRandomKind => (spawn'.spawned /\ spawnKind = "random")]_vars

\* C29, amended: as above, but nextRandomKind is re-drawn after such a spawn
\* and by a press of key 0, and by nothing else.
C29_RedrawnAfterSpawnOrKey0 ==
    [][/\ SpawnsThePreview
       /\ nextRandomKind' # nextRandomKind =>
             \/ spawn'.spawned /\ spawnKind = "random"
             \/ key'.pressed /\ key'.k = "0"]_vars

\* a click in random mode has spawned the box the preview showed, and the
\* preview now shows another kind
C29_Witness ==
    /\ spawn.spawned /\ spawnKind = "random"
    /\ spawn.kind = "box" /\ entities[Len(entities)].kind = "box"
    /\ nextRandomKind = "triangle" /\ ghostKind(onFrameRef) = "triangle"

\* a click in a fixed mode has spawned the fixed kind, not the random one
C29_WitnessFixed ==
    /\ spawn.spawned /\ spawnKind = "triangle"
    /\ spawn.kind = "triangle" /\ nextRandomKind = "circle"

----------------------------------------------------------------------------
(* C30: the cap of the cleanup pass *)

\* C30: right after a frame's cleanup pass there are at most MAX_ENTITIES
\* active entities; the cap evicts max(0, survivors of the cull -
\* MAX_ENTITIES) entities, so the entities the pass culled do not count
\* toward the surplus, and the evicted ones are the oldest survivors.
C30_CapEvictsOldestSurplus ==
    pass.ran =>
        LET evicted == Cardinality(DOMAIN pass.capped) IN
        /\ Len(entities) <= MAX_ENTITIES
        /\ evicted = Max2(0, Len(CullSurvivors) - MAX_ENTITIES)
        /\ DOMAIN pass.capped = Range(SubSeq(CullSurvivors, 1, evicted))
        /\ DOMAIN pass.capped \cap DOMAIN pass.culled = {}
        /\ Len(entities) = Len(pass.input) - Cardinality(DOMAIN pass.culled) - evicted

\* a pass that culled some entities and evicted fewer than its input list
\* had above MAX_ENTITIES
C30_Witness ==
    /\ pass.ran
    /\ DOMAIN pass.culled # {}
    /\ DOMAIN pass.capped # {}
    /\ Cardinality(DOMAIN pass.capped) < Len(pass.input) - MAX_ENTITIES

\* a pass over more than MAX_ENTITIES entities that evicted none, the cull
\* having left no surplus
C30_WitnessNoSurplus ==
    /\ pass.ran
    /\ Len(pass.input) > MAX_ENTITIES
    /\ DOMAIN pass.culled # {}
    /\ DOMAIN pass.capped = {}

----------------------------------------------------------------------------
(* C31: what a frame adds to the accumulator *)

\* C31: in every revision of the frame loop a delivered frame increases the
\* accumulator by that frame's simulation dt, once, before stepping: the time
\* its steps advance plus the accumulator afterwards is the accumulator before
\* plus dt; so the time stepped since init never exceeds the simulation dt
\* delivered since init.
C31_AccumulatedOnce ==
    /\ call.op # "none" => SumSteps(call.log) + accumulator = call.acc0 + call.dt
    /\ stepped <= fed

----------------------------------------------------------------------------
(* C32: stepWorldWithForces carries no remainder *)

\* C32: after stepWorldWithForces returns, with dt >= 0, the accumulator is
\* exactly 0; no remainder goes to the next frame, so a frame starts from an
\* empty accumulator and the time it simulates is its own dt, whatever the
\* frames before it were.
C32_NoRemainderCarried ==
    (call.op = "forces" /\ call.dt >= 0) =>
        /\ accumulator = 0
        /\ call.acc0 = 0
        /\ call.ret = call.dt
        /\ SumSteps(call.log) = call.dt

\* a frame that follows a frame with a remainder, its own dt not a whole
\* number of timesteps either
C32_Witness ==
    /\ call.op = "forces"
    /\ fed > call.dt
    /\ (fed - call.dt) % call.ts # 0
    /\ call.dt > call.ts
    /\ call.dt % call.ts # 0
    /\ accumulator = 0

----------------------------------------------------------------------------
(* C33: dt and time across a pause *)

\* the latest callback before this frame that restarted the timing found the
\* host paused, later than any delivered frame, and no reset came after it
PausedTickJustBefore ==
    /\ frame.timedBefore
    /\ frame.deliveredBefore => frame.sinceTimed < frame.sinceDelivered
    /\ now - frame.sinceTimed >= startTime

----------------------------------------------------------------------------
(* C34: the order of a frame *)

\* C34: a frame sets gravity from the current tilt, then steps the world,
\* then runs the cull and the cap, then draws: its steps run under the
\* gravity of the current tilt, the cleanup judges the positions the steps
\* left, and the draw reads the entities that came through the cleanup and
\* no destroyed body.
C34_FrameOrder ==
    pass.ran =>
        /\ pass.gravityDeg = tiltDeg
        /\ world.gravityDeg = tiltDeg
        /\ \A b \in DOMAIN pass.culled :
              IsOutside(pass.culled[b][1], pass.culled[b][2], pass.width, pass.height)
        /\ pass.drawn = BodiesOf(entities)
        /\ Range(pass.drawn) \subseteq DOMAIN bodyPos
        /\ \A b \in Range(pass.drawn) :
              ~IsOutside(PixelPos(bodyPos[b])[1], PixelPos(bodyPos[b])[2],
                         pass.width, pass.height)
        /\ Range(pass.drawn) \cap (DOMAIN pass.culled \cup DOMAIN pass.capped) = {}
        /\ Range(pass.drawn) = Range(pass.input) \ (DOMAIN pass.culled \cup DOMAIN pass.capped)

\* a frame after the tilt was changed, whose steps moved a body past the
\* margin: the body was culled and not drawn
C34_Witness ==
    /\ pass.ran
    /\ pass.gravity0 # pass.gravityDeg
    /\ tiltDeg = -45
    /\ DOMAIN pass.culled # {}
    /\ pass.drawn # <<>>
    /\ Len(pass.drawn) < Len(pass.input)

----------------------------------------------------------------------------
(* C35: no dynamic body is leaked *)

\* C35: whenever a world is live, its dynamic bodies are exactly the bodies
\* the active list names, each named once: no body is in the world without
\* an entity, and no entity has a destroyed body.
C35_BodiesAreTheList ==
    world.live =>
        /\ DOMAIN bodyPos = Range(BodiesOf(entities))
        /\ Cardinality(Range(BodiesOf(entities))) = Len(entities)

\* after bursts, a frame that culled some entities and capped others: the
\* world holds the MAX_ENTITIES bodies of the list, of the many created
C35_Witness ==
    /\ world.live
    /\ pass.ran
    /\ DOMAIN pass.culled # {}
    /\ DOMAIN pass.capped # {}
    /\ Cardinality(DOMAIN bodyPos) = MAX_ENTITIES
    /\ nextBody > MAX_ENTITIES + INITIAL_ENTITIES

\* key x has emptied the world of a long list
C35_WitnessCleared ==
    /\ world.live
    /\ entities = <<>> /\ DOMAIN bodyPos = {}
    /\ nextBody > MAX_ENTITIES

----------------------------------------------------------------------------
(* C36: the list stays in spawn order *)

\* bodies are numbered as they are created, so a body's number is its place
\* in the order of spawns
InSpawnOrder(bodies) == \A i, j \in 1..Len(bodies) : i < j => bodies[i] < bodies[j]

\* C36: cleanupEntities keeps the entities it keeps in the order they had,
\* and every spawn path appends, so the active list is always in spawn order
\* and the entities the cap evicts are older than every entity that stays.
C36_ListInSpawnOrder ==
    /\ InSpawnOrder(BodiesOf(entities))
    /\ pass.ran =>
          /\ InSpawnOrder(pass.input)
          /\ BodiesOf(entities) =
                SelectSeq(pass.input, LAMBDA b : b \in Range(BodiesOf(entities)))
          /\ \A c \in DOMAIN pass.capped, b \in Range(BodiesOf(entities)) : c < b

\* a frame's cap has evicted entities of a list built by init and bursts,
\* after another frame had already evicted some
C36_Witness ==
    /\ pass.ran
    /\ DOMAIN pass.capped # {}
    /\ Len(entities) = MAX_ENTITIES
    /\ entities[1].body > INITIAL_ENTITIES
    /\ nextBody > MAX_ENTITIES + 2 * BURST_COUNT

----------------------------------------------------------------------------
(* C37: renders do not run init *)

\* a step in which key r was pressed
IsKeyResetStep == key'.pressed /\ key'.k = "r"

\* C37: with the final host, init runs only on mount and on an explicit
\* reset: any other step of the mounted page (a render after a state change,
\* a pause, a key or slider that sets tilt, wind or slow-mo, a frame) leaves
\* the number of inits, the world and the timing origin as they were, keeps
\* the frame callback requested, and empties no list that held an entity.
C37_InitOnlyOnMountAndReset ==
    [][(mounted /\ ~IsKeyResetStep) =>
          /\ used'.inits = used.inits
          /\ world'.live = world.live /\ world'.id = world.id
          /\ startTime' = startTime
          /\ animationRef' = animationRef
          /\ entities # <<>> => entities' # <<>>]_vars

\* state changes of both components have been rendered, time has passed, and
\* the world is still the one made on mount, with its entities
C37_Witness ==
    /\ mounted /\ used.inits = 1 /\ world.live
    /\ windOn /\ slowMo /\ isPaused /\ tiltDeg = -45
    /\ now > startTime
    /\ animationRef
    /\ Len(entities) = INITIAL_ENTITIES

\* after a reset by key r the world is the second one
C37_WitnessReset == mounted /\ used.inits = 2 /\ key.pressed /\ key.k = "r" /\ now = startTime /\ now > 0

----------------------------------------------------------------------------
(* C38: the animation loop never stops *)

\* the host is mounted, not paused, and has a frame context
ReadyToDeliver == mounted /\ ~isPausedRef /\ frameCtx.set

\* C38: while the host is mounted exactly one frame callback is pending
\* (none before mount and after teardown), every callback that runs, paused,
\* delivering or without a frame context, leaves exactly one pending, and
\* a callback that finds the host not paused with a frame context invokes
\* onFrame; so from any state where the host is mounted, not paused and has
\* a frame context, onFrame is eventually invoked unless the host is paused
\* again or unmounted first.
C38_LoopNeverStops ==
    /\ [](pendingFrames = (IF mounted THEN 1 ELSE 0))
    /\ [](mounted => animationRef)
    /\ [][frame'.ticked => /\ pendingFrames' = 1
                           /\ frame'.delivered = (~isPausedRef /\ frameCtx.set)]_vars
    /\ (ReadyToDeliver ~> (frame.delivered \/ isPausedRef \/ ~mounted))

\* a frame delivered after callbacks that found the host paused while time
\* passed, with the next callback pending
C38_Witness ==
    /\ frame.delivered /\ frameLog.idle > 0 /\ frame.dtMs = 0
    /\ mounted /\ pendingFrames = 1

\* a callback that found the host paused, and one that found no frame
\* context, each with the next callback pending
C38_WitnessPaused == frame.ticked /\ isPausedRef /\ ~frame.delivered /\ pendingFrames = 1

C38_WitnessNoContext == frame.ticked /\ ~isPausedRef /\ ~frameCtx.set /\ pendingFrames = 1

----------------------------------------------------------------------------
(* C39: what a reset leaves alone *)

\* C39: a reset, by key r or by the HUD's button, leaves the tilt, wind,
\* attractor, slow-mo and spawn-mode settings, the paused flag, the last
\* pointer position, a pending drag start and simTime as they were; with a
\* frame context it replaces the world and restarts the accumulator and the
\* timing origin.
C39_ResetKeepsSettings ==
    [][IsResetStep =>
          /\ UNCHANGED <<tiltDeg, windOn, attractorOn, slowMo, spawnKind, nextRandomKind>>
          /\ UNCHANGED <<isPaused, isPausedRef>>
          /\ UNCHANGED <<lastPointer, dragStart>>
          /\ simTime' = simTime
          /\ frameCtx.set => /\ world'.id # world.id
                             /\ accumulator' = 0
                             /\ startTime' = now /\ lastTime' = now]_vars

\* after a reset made once the clock had advanced and a frame had run: the
\* world is a new one and the clocks restart from the reset, every setting is
\* off its default, the host is paused, a drag start is pending, and
\* simulated time has passed
C39_Witness ==
    /\ used.inits = 2 /\ world.id = 2 /\ accumulator = 0
    /\ tiltDeg = -45 /\ windOn /\ attractorOn /\ slowMo /\ spawnKind = "circle"
    /\ isPaused
    /\ lastPointer.set /\ dragStart.set
    /\ simTime > 0
    /\ startTime = now /\ now > 0

----------------------------------------------------------------------------
(* C40: pointer-down and pointer-up pair up *)

\* C40: a pointer-up appends exactly one entity, on a new body, if a drag
\* start is recorded and the world is live, and otherwise changes neither
\* the list nor the engine; either way no drag start is recorded after it,
\* so a pointer-up that follows a pointer-up spawns nothing. A pointer-down
\* with a live world records its own place and time as the drag start,
\* whatever start was recorded before, and without a world records nothing;
\* the start a spawning pointer-up uses is the recorded one, so the latest.
C40_PointerEventsPair ==
    /\ [][spawn'.up =>
             /\ spawn'.spawned = (dragStart.set /\ world.live)
             /\ dragStart' = NoDrag
             /\ IF spawn'.spawned
                THEN /\ Len(entities') = Len(entities) + 1
                     /\ SubSeq(entities', 1, Len(entities)) = entities
                     /\ DOMAIN bodyPos' = DOMAIN bodyPos \cup {entities'[Len(entities')].body}
                     /\ entities'[Len(entities')].body \notin DOMAIN bodyPos
                     /\ <<spawn'.startX, spawn'.startY, spawn'.startT>>
                           = <<dragStart.x, dragStart.y, dragStart.t>>
                ELSE UNCHANGED <<entities, bodyPos, nextBody>>]_vars
    /\ [][(spawn.up /\ spawn'.up) => ~spawn'.spawned]_vars
    /\ [][spawn'.down =>
             IF world.live
             THEN /\ lastPointer'.set
                  /\ dragStart' = [set |-> TRUE, x |-> lastPointer'.x,
                                   y |-> lastPointer'.y, t |-> now]
             ELSE UNCHANGED dragStart]_vars
    /\ [](dragStart.set => world.live)

\* a pointer-up has spawned from a start that a pointer-down recorded at a
\* later time and another place than a start recorded before it
C40_Witness ==
    /\ spawn.up /\ spawn.spawned /\ dragStart = NoDrag
    /\ Len(entities) = spawn.count0 + 1
    /\ spawn.startT > 0 /\ spawn.startX # spawn.x

\* a pointer-down on a recorded start of another time and place
C40_WitnessSecondDown ==
    /\ spawn.down /\ spawn.hadStart /\ dragStart.set
    /\ spawn.startT < dragStart.t /\ spawn.startX # dragStart.x

\* a pointer-up with no start recorded, after an earlier one has spawned
C40_WitnessSecondUp ==
    /\ spawn.up /\ ~spawn.spawned /\ ~spawn.hadStart /\ world.live
    /\ Len(entities) = INITIAL_ENTITIES + 1

\* a pointer-down and a pointer-up on a page with a frame context and no world
C40_WitnessNoWorld == spawn.up /\ ~spawn.spawned /\ frameCtx.set /\ ~world.live

====
